---- MODULE Spec2Model ----
(***************************************************************************)
(* revent: synchronous publish/subscribe with subscribe-time cycle         *)
(* detection (Manager, Slot, Feed, Anchor) and the Node/Channel            *)
(* reentrancy guard (Node::emit, suspend).                                 *)
(*                                                                         *)
(* Spec      the Manager/Slot/Anchor library: subscribe, unsubscribe and   *)
(*           slot emission with running handlers.                          *)
(* SpecNode  the Node/Channel library: Node::emit, suspend, Channel.       *)
(***************************************************************************)
EXTENDS Integers, Sequences, FiniteSets, TLC

VARIABLES
    \* ---- ManagerInternal (src/src/mng.rs) ----
    channel_types,  \* BTreeMap<ChannelName, ChannelType>
    active,         \* Vec<ListensAndEmits>
    amalgam,        \* BTreeMap<ChannelName, BTreeSet<ChannelName>>
    emits,          \* BTreeMap<ChannelName, BTreeSet<HandlerName>>
    listens,        \* BTreeMap<ChannelName, BTreeSet<HandlerName>>
    \* ---- lib.rs thread local and Anchor::subscribe locals ----
    STACK,          \* Vec<(Mode, Manager)>
    calls,          \* per STACK entry: the subscribe/unsubscribe call that
                    \* pushed it: [name, item, pc]
    \* ---- Slot / Feed / subscriber objects ----
    slots,          \* Slot::nodes per slot name: Vec<Rc<RefCell<T>>>
    queues,         \* Feed::queues: Vec<Queue<T>>
    nodes,          \* subscriber objects created so far: [name, emits]
    \* ---- slot emission in progress ----
    emitStack,      \* nested Slot::emit loops: [slot, idx]
    borrowedSlots,  \* slots whose `nodes` RefCell is mutably borrowed
    borrowedNodes,  \* subscribers whose RefCell is mutably borrowed
    \* ---- Node / Channel library (src/src/node.rs, src/src/channel.rs) ----
    flag,           \* Node::item.0 per node: Cell<BorrowFlag>
    NODE_STACK,     \* thread local STACK of node.rs: one entry per Node::emit
    items,          \* Channel::items per channel: IsizeVec<Node<T>>
    frames,         \* the call chain of the running dispatch
    lastCall,       \* the call made by the last step
    \* ---- Recursion (src/src/rec.rs) ----
    mapping,        \* Recursion::mapping: BTreeMap<&str, Vec<&str>>
    checked,        \* what the last Recursion::check returned
    \* ---- outcome of the last panicking call ----
    err,            \* "none" or the panic
    recChain,       \* chain carried by the recursion panic
    \* ---- Feedee objects and the record of the last container call ----
    feedees,        \* Feedee objects created so far: [feed, name, items,
                    \* dropped], items being the VecDeque the Feedee
                    \* shares with its Queue in Feed::queues
    applied,        \* the closure calls of the last Signal::remove:
                    \* [item, result] per call
    returned,       \* what the last Feedee::pop or Single::emit returned:
                    \* [call, of, value], an Option being <<>> or <<item>>
    \* ---- Mailer / Mailbox (src/src/asynchronous.rs) ----
    senders,        \* Senders.0: Vec<Sender<T>>, a Sender being the
                    \* number of the Mailbox that holds its Receiver
    lastSent,       \* Senders.1: Option<T>, the item sent last
    channels,       \* per Mailbox: the items in its channel
    dropped,        \* the Mailboxes that were dropped
    sending,        \* the Mailer::send that holds the Mutex: [item, idx]
    waiting,        \* the Mailboxes whose try_recv found the channel empty
                    \* and has not locked the Mutex yet
    receiving,      \* the Mailboxes whose recv found the channel empty, each
                    \* with where the call is: before the lock of the Mutex
                    \* ("lock"), or blocked in Receiver::recv ("recv")
    sent,           \* history: the items of the Mailer::send calls so far
    taken,          \* history, per Mailbox: the items its Receiver gave out
    since,          \* history, per Mailbox: Len(sent) when it was created
    received        \* history, per Mailbox: the items its recv and try_recv
                    \* returned, the clones of the item kept by send included

mngVars  == <<channel_types, active, amalgam, emits, listens>>
subVars  == <<STACK, calls, slots, queues, nodes>>
emitVars == <<emitStack, borrowedSlots, borrowedNodes>>
nodeVars == <<flag, NODE_STACK, items, frames, lastCall>>
recVars  == <<mapping, checked>>
contVars == <<feedees, applied, returned>>
mailVars == <<senders, lastSent, channels, dropped, sending, waiting,
              receiving, sent, taken, since, received>>
libVars  == <<mngVars, subVars, emitVars, recChain, recVars, mailVars, contVars>>
vars == <<channel_types, active, amalgam, emits, listens, STACK, calls,
          slots, queues, nodes, emitStack, borrowedSlots, borrowedNodes,
          flag, NODE_STACK, items, frames, lastCall, mapping, checked,
          err, recChain, feedees, applied, returned, senders, lastSent,
          channels, dropped, sending, waiting, receiving, sent, taken,
          since, received>>

----------------------------------------------------------------------------
(* Bounds *)

MaxNodes == 3      \* subscriber objects created in one run
MaxDepth == 2      \* nested Anchor calls
MaxItems == 2      \* entries of one Channel
MaxFrames == 6     \* calls of the Node library nested in one another
MaxEdges == 5      \* children recorded in one Recursion
MaxInserts == 4    \* entries of the Channel whose order is looked at
MaxFeedees == 2    \* Feedee objects of the Feed whose queues are looked at
MaxBoxes == 2      \* Mailbox objects of the Mailer
MaxMail == 2       \* calls of Mailer::send
MaxRecv == 3       \* items one Mailbox receives
MaxSignals == 2    \* signals handed to one Recursion::is_chained

----------------------------------------------------------------------------
(* The anchor under test: three slots and one feed *)

SlotNames == {"a", "b", "c"}
FeedNames == {"q"}
ChannelNames == SlotNames \cup FeedNames

\* a slot created with another Manager than the anchor's
\* (slot.rs, tests::subscribing_with_different_manager)
ForeignSlots == {"z"}

\* a name no channel of the anchor has
NewNames == {"d"}

\* Ord for &'static str restricted to the channel names in use
NameOrder == <<"a", "b", "c", "q">>

\* faulty variant: the names are traversed from the greatest to the least
Sorted_reversed(S) ==
    SelectSeq([i \in 1..Len(NameOrder) |-> NameOrder[Len(NameOrder) + 1 - i]],
              LAMBDA x : x \in S)

Sorted(S) == SelectSeq(NameOrder, LAMBDA x : x \in S)

Range(s) == {s[i] : i \in 1..Len(s)}

Contains(s, x) == \E i \in 1..Len(s) : s[i] = x

Last(s) == s[Len(s)]

Pop(s) == SubSeq(s, 1, Len(s) - 1)

----------------------------------------------------------------------------
(* ChannelType *)

\* faulty variant: the filter keeps the feeds instead of the direct channels
is_direct_inverted(t) == t # "Direct"

\* faulty variant: every channel type counts as direct
is_direct_always(t) == TRUE

is_direct(t) == t = "Direct"

----------------------------------------------------------------------------
(* ManagerInternal::chkrec *)

\* faulty variant: the path is reported from its start
TrimFront_kept(chain, signal) == chain

RECURSIVE TrimFront(_, _)
\* while &chain[0] != signal { chain.remove(0); }
TrimFront(chain, signal) ==
    IF chain[1] # signal THEN TrimFront(Tail(chain), signal) ELSE chain

DirectOf(S, ct) == SelectSeq(Sorted(S), LAMBDA x : is_direct(ct[x]))

RECURSIVE chkreci(_, _, _, _), chkreciFor(_, _, _, _, _)
chkreci(now, set, chain, ct) ==
    IF now \in DOMAIN set
    THEN chkreciFor(DirectOf(set[now], ct), 1, set, chain, ct)
    ELSE [ok |-> TRUE, chain |-> chain]

chkreciFor(sigs, i, set, chain, ct) ==
    IF i > Len(sigs) THEN [ok |-> TRUE, chain |-> chain]
    ELSE LET signal == sigs[i] IN
         IF Contains(chain, signal)
         THEN [ok |-> FALSE, chain |-> TrimFront(Append(chain, signal), signal)]
         ELSE LET r == chkreci(signal, set, Append(chain, signal), ct) IN
              IF ~r.ok THEN r
              ELSE chkreciFor(sigs, i + 1, set, Pop(r.chain), ct)

RECURSIVE chkrecFor(_, _, _, _)
chkrecFor(keys, i, set, ct) ==
    IF i > Len(keys) THEN [ok |-> TRUE, chain |-> <<>>]
    ELSE LET r == chkreci(keys[i], set, <<keys[i]>>, ct) IN
         IF ~r.ok THEN r ELSE chkrecFor(keys, i + 1, set, ct)

\* faulty variant: chkreci looks at the children of a channel but never descends
chkrec_shallow(set, ct) ==
    IF \E k \in DOMAIN set : is_direct(ct[k]) /\ k \in set[k]
    THEN LET k == CHOOSE k \in DOMAIN set :
                      /\ is_direct(ct[k]) /\ k \in set[k]
                      /\ \A j \in DOMAIN set :
                             (is_direct(ct[j]) /\ j \in set[j]) =>
                             \E p, q \in 1..Len(NameOrder) :
                                 NameOrder[p] = k /\ NameOrder[q] = j /\ p <= q
         IN [ok |-> FALSE, chain |-> <<k, k>>]
    ELSE [ok |-> TRUE, chain |-> <<>>]

\* faulty variant: a channel that is reached along two paths is reported
\* like a cycle
chkrec_tree(set, ct) ==
    LET r == chkrecFor(DirectOf(DOMAIN set, ct), 1, set, ct)
    IN IF ~r.ok THEN r
       ELSE IF \E k \in DOMAIN set : \E x, y \in set[k] :
                   /\ is_direct(ct[k]) /\ is_direct(ct[x]) /\ is_direct(ct[y])
                   /\ x \in DOMAIN set /\ y \in set[x]
       THEN LET k == CHOOSE k \in DOMAIN set : \E x, y \in set[k] :
                   /\ is_direct(ct[k]) /\ is_direct(ct[x]) /\ is_direct(ct[y])
                   /\ x \in DOMAIN set /\ y \in set[x]
            IN [ok |-> FALSE, chain |-> <<k, k>>]
       ELSE r

chkrec(set, ct) == chkrecFor(DirectOf(DOMAIN set, ct), 1, set, ct)

----------------------------------------------------------------------------
(* Manager *)

\* faulty variant: the entry is overwritten with vs
EntryInsert_replacing(map, k, vs) ==
    IF k \in DOMAIN map
    THEN [map EXCEPT ![k] = vs]
    ELSE map @@ (k :> vs)

\* BTreeMap::entry(k).or_insert_with(Default::default), then insert each of vs
EntryInsert(map, k, vs) ==
    IF k \in DOMAIN map
    THEN [map EXCEPT ![k] = @ \cup vs]
    ELSE map @@ (k :> vs)

RECURSIVE EntryInsertAll(_, _, _)
EntryInsertAll(map, ks, vs) ==
    IF ks = <<>> THEN map
    ELSE EntryInsertAll(EntryInsert(map, Head(ks), vs), Tail(ks), vs)

prepare_construction(act, name) ==
    Append(act, [name |-> name, emits |-> <<>>, listens |-> <<>>])

\* the assertion of register_emit
register_emit_ok(act, signal) == ~Contains(Last(act).emits, signal)

register_emit(act, signal) ==
    [act EXCEPT ![Len(act)].emits = Append(@, signal)]

\* faulty variant: register_listen pushes without looking at the frame
register_listen_unchecked(act, signal) == TRUE

\* the assertion of register_listen
register_listen_ok(act, signal) == ~Contains(Last(act).listens, signal)

register_listen(act, signal) ==
    [act EXCEPT ![Len(act)].listens = Append(@, signal)]

current(act) == Last(act).name

\* the three loops of finish_construction over the returned frame `last`
\* faulty variant: the keys are created but the emissions are not inserted
finish_amalgam_no_edges(am, last) == EntryInsertAll(am, last.listens, {})

\* faulty variant: every listened channel gets the first emitted channel only
finish_amalgam_first(am, last) ==
    EntryInsertAll(am, last.listens,
                   IF last.emits = <<>> THEN {} ELSE {Head(last.emits)})

finish_amalgam(am, last) == EntryInsertAll(am, last.listens, Range(last.emits))

\* faulty variant: the listeners of the returned frame are not recorded
finish_listens_none(ls, last) == ls

finish_listens(ls, last) == EntryInsertAll(ls, last.listens, {last.name})

finish_emits(es, last) == EntryInsertAll(es, last.emits, {last.name})

\* Ord for &'static str restricted to the handler names in use
HandlerOrder == <<"A", "D", "E", "F", "FeedeeNode", "FeederNode", "G", "K", "L",
                  "M", "N", "O", "P", "R", "S", "T", "V", "W", "X", "Y",
                  "Z">>

\* one window of RecursionPrinter::fmt: the handlers in
\* listens[from].intersection(emits[to]), in BTreeSet order, and `from`
Hop(from, to, ls, es) ==
    [handlers |-> SelectSeq(HandlerOrder, LAMBDA h : h \in ls[from] \cap es[to]),
     from |-> from]

\* the windows of chain.windows(2) in which one of the two lookups of
\* RecursionPrinter::fmt finds no entry
FailingWindows(chain, ls, es) ==
    {i \in 1..(Len(chain) - 1) :
        chain[i + 1] \notin DOMAIN es \/ chain[i] \notin DOMAIN ls}

\* <RecursionPrinter as Display>::fmt: what is written, or the panic raised
RecursionPrinter(chain, ls, es) ==
    IF Len(chain) < 2
    THEN [state |-> "recursion chain has length < 2", hops |-> <<>>,
          last |-> "none"]
    ELSE IF FailingWindows(chain, ls, es) # {}
    THEN \* the loop stops at the first window with a missing key:
         \* emits.get(to).unwrap() comes before listens.get(from).expect(..)
         LET i == CHOOSE w \in FailingWindows(chain, ls, es) :
                      \A v \in FailingWindows(chain, ls, es) : w <= v
         IN IF chain[i + 1] \notin DOMAIN es
            THEN [state |-> "called Option::unwrap() on a None value",
                  hops |-> <<>>, last |-> "none"]
            ELSE [state |-> "recursion chain contains malformed information",
                  hops |-> <<>>, last |-> "none"]
    ELSE [state |-> "Ok",
          hops |-> [i \in 1..(Len(chain) - 1) |->
                        Hop(chain[i], chain[i + 1], ls, es)],
          last |-> Last(chain)]

----------------------------------------------------------------------------
(* The handler kinds under test.  A kind is a type implementing the          *)
(* subscriber trait: `ops` is what its register_emits does with the anchor,  *)
(* `regs` what its register_listens does, in program order.                  *)

Clone(slot)     == <<"clone", slot>>
Feeder(feed)    == <<"feeder", feed>>
Feedee(feed)    == <<"feedee", feed>>
Register(slot)  == <<"register", slot>>
\* Feeder::feed on the Feeder the statement before made
Feed(feed, item) == <<"feed", feed, item>>
\* the end of a statement `let _ = feed.feedee()`: the Feedee is dropped
Drop(feed)      == <<"drop", feed>>
Subscribe(name) == <<"subscribe", name>>

Kinds ==
    [ X |-> [ops |-> <<Clone("b")>>,              regs |-> <<Register("a")>>],
      Y |-> [ops |-> <<Clone("a")>>,              regs |-> <<Register("b")>>],
      Z |-> [ops |-> <<Clone("c")>>,              regs |-> <<Register("b")>>],
      W |-> [ops |-> <<Clone("a")>>,              regs |-> <<Register("c")>>],
      S |-> [ops |-> <<Clone("a")>>,              regs |-> <<Register("a")>>],
      T |-> [ops |-> <<Clone("b"), Clone("c")>>,  regs |-> <<Register("a")>>],
      M |-> [ops |-> <<Clone("c")>>,
             regs |-> <<Register("a"), Register("b")>>],
      F |-> [ops |-> <<Feeder("q")>>,             regs |-> <<Register("c")>>],
      G |-> [ops |-> <<Clone("c"), Feedee("q")>>, regs |-> <<Register("a")>>],
      R |-> [ops |-> <<Feeder("q"), Feedee("q"), Drop("q")>>,
             regs |-> <<>>],
      FeederNode |-> [ops |-> <<Feeder("q"), Feed("q", 0)>>, regs |-> <<>>],
      FeedeeNode |-> [ops |-> <<Feedee("q")>>,    regs |-> <<>>],
      P |-> [ops |-> <<>>,
             regs |-> <<Subscribe("L"), Register("a")>>],
      L |-> [ops |-> <<>>,                        regs |-> <<Register("a")>>],
      V |-> [ops |-> <<Clone("b")>>,              regs |-> <<Register("c")>>],
      D |-> [ops |-> <<Clone("a"), Clone("a")>>,  regs |-> <<>>],
      E |-> [ops |-> <<>>,
             regs |-> <<Register("a"), Register("a")>>],
      N |-> [ops |-> <<Clone("b")>>,
             regs |-> <<Register("a"), Subscribe("E")>>],
      O |-> [ops |-> <<>>,                        regs |-> <<Register("z")>>],
      K |-> [ops |-> <<Clone("z")>>,              regs |-> <<>>],
      A |-> [ops |-> <<Clone("b")>>,              regs |-> <<>>] ]

\* the kinds subscribed in the runs of the anchor
HandlerNames == {"X", "Y", "Z", "W", "S", "T", "M", "F", "G", "R", "P", "L", "V",
                 "A"}

\* the kinds subscribed in the runs about declarations and channel creation
DeclNames == {"X", "Y", "Z", "S", "D", "E", "N", "O", "K", "F", "G"}

\* channels a kind declares, as the Manager will see them
ListensOf(name) ==
    {op[2] : op \in {o \in Range(Kinds[name].ops) : o[1] = "feedee"}}
    \cup {op[2] : op \in {o \in Range(Kinds[name].regs) : o[1] = "register"}}

EmitsOf(name) ==
    {op[2] : op \in {o \in Range(Kinds[name].ops) : o[1] \in {"clone", "feeder"}}}

----------------------------------------------------------------------------
(* Initial state: MyAnchor::new() has created its channels with one Manager *)

EmptyMap == [x \in {} |-> {}]

\* the Node objects and the two Channels holding them
Cells == {1, 2}
ChannelIds == {"channel_1", "channel_2"}
NoCall == [name |-> "none", target |-> 0, prev |-> "none"]

\* no Mailer::send holds the Mutex
NoSend == [item |-> -1, idx |-> 0]

\* no Feedee::pop or Single::emit has returned
NoReturn == [call |-> "none", of |-> 0, value |-> <<>>]

\* no Recursion::check has returned since the last Recursion::add
NotChecked == [state |-> "none", chain |-> <<>>]

TheManager == "mng"

\* the Manager a channel was created with
ManagerOf(ch) == IF ch \in ForeignSlots THEN "other" ELSE TheManager

Init ==
    /\ channel_types = [n \in ChannelNames |->
                            IF n \in SlotNames THEN "Direct" ELSE "Feed"]
    /\ active = <<>>
    /\ amalgam = EmptyMap
    /\ emits = EmptyMap
    /\ listens = EmptyMap
    /\ STACK = <<>>
    /\ calls = <<>>
    /\ slots = [s \in SlotNames \cup ForeignSlots |-> <<>>]
    /\ queues = [f \in FeedNames |-> <<>>]
    /\ nodes = <<>>
    /\ emitStack = <<>>
    /\ borrowedSlots = {}
    /\ borrowedNodes = {}
    /\ flag = [c \in Cells |-> 0]
    /\ NODE_STACK = <<>>
    /\ items = [ch \in ChannelIds |-> <<>>]
    /\ frames = <<>>
    /\ lastCall = NoCall
    /\ mapping = <<>>
    /\ checked = NotChecked
    /\ err = "none"
    /\ recChain = <<>>
    /\ feedees = <<>>
    /\ applied = <<>>
    /\ returned = NoReturn
    /\ senders = <<>>
    /\ lastSent = <<>>
    /\ channels = <<>>
    /\ dropped = {}
    /\ sending = NoSend
    /\ waiting = {}
    /\ receiving = {}
    /\ sent = <<>>
    /\ taken = <<>>
    /\ since = <<>>
    /\ received = <<>>

Running == err = "none"

\* faulty variant: the Manager of the innermost Anchor call is not compared
assert_active_manager_any(stack, manager) ==
    IF stack = <<>> THEN "signal modification outside of Anchor context"
    ELSE "none"

\* assert_active_manager: the innermost Anchor call is by this manager
assert_active_manager(stack, manager) ==
    IF stack = <<>> THEN "signal modification outside of Anchor context"
    ELSE IF Last(stack).mng # manager THEN "manager is different"
    ELSE "none"

Panic(msg) ==
    /\ err' = msg
    /\ UNCHANGED <<mngVars, subVars, emitVars, recChain, nodeVars, recVars, mailVars, contVars>>

\* the innermost Anchor call and the statement it is about to execute
Top == Last(calls)

InOps  == STACK # <<>> /\ Top.item = 0 /\ Top.pc <= Len(Kinds[Top.name].ops)

InRegs == STACK # <<>> /\ Top.item # 0 /\ Top.pc <= Len(Kinds[Top.name].regs)

Advance(cs) == [cs EXCEPT ![Len(cs)].pc = @ + 1]

----------------------------------------------------------------------------
(* Anchor::subscribe, first part: push the mode, open the frame *)

SubscribeBegin(name) ==
    /\ Running
    /\ emitStack = <<>>
    /\ Len(STACK) < MaxDepth
    /\ Len(nodes) + Cardinality({i \in 1..Len(calls) : calls[i].item = 0})
           < MaxNodes
    \* a nested subscribe is a statement of the enclosing register_listens
    /\ STACK # <<>> => (InRegs /\ Kinds[Top.name].regs[Top.pc] = Subscribe(name))
    /\ STACK' = Append(STACK, [mode |-> "Adding", mng |-> TheManager])
    /\ calls' = Append(IF STACK = <<>> THEN calls ELSE Advance(calls),
                       [name |-> name, item |-> 0, pc |-> 1])
    /\ active' = prepare_construction(active, name)
    /\ UNCHANGED <<channel_types, amalgam, emits, listens, slots, queues,
                   nodes, emitVars, err, recChain,
                   nodeVars, recVars, mailVars, contVars>>

\* Slot::clone
SlotClone(slot) ==
    /\ Running
    /\ InOps
    /\ Kinds[Top.name].ops[Top.pc] = Clone(slot)
    /\ IF assert_active_manager(STACK, ManagerOf(slot)) # "none"
       THEN Panic(assert_active_manager(STACK, ManagerOf(slot)))
       ELSE IF ~register_emit_ok(active, slot)
       THEN Panic("not allowed to clone more than once per subscription")
       ELSE /\ active' = register_emit(active, slot)
            /\ calls' = Advance(calls)
            /\ UNCHANGED <<channel_types, amalgam, emits, listens, STACK,
                           slots, queues, nodes, emitVars, err, recChain,
                   nodeVars, recVars, mailVars, contVars>>

\* Feed::feeder
FeedFeeder(feed) ==
    /\ Running
    /\ InOps
    /\ Kinds[Top.name].ops[Top.pc] = Feeder(feed)
    /\ IF assert_active_manager(STACK, ManagerOf(feed)) # "none"
       THEN Panic(assert_active_manager(STACK, ManagerOf(feed)))
       ELSE IF ~register_emit_ok(active, feed)
       THEN Panic("not allowed to clone more than once per subscription")
       ELSE /\ active' = register_emit(active, feed)
            /\ calls' = Advance(calls)
            /\ UNCHANGED <<channel_types, amalgam, emits, listens, STACK,
                           slots, queues, nodes, emitVars, err, recChain,
                   nodeVars, recVars, mailVars, contVars>>

\* Feed::feedee
FeedFeedee(feed) ==
    /\ Running
    /\ InOps
    /\ Kinds[Top.name].ops[Top.pc] = Feedee(feed)
    /\ IF assert_active_manager(STACK, ManagerOf(feed)) # "none"
       THEN Panic(assert_active_manager(STACK, ManagerOf(feed)))
       ELSE IF ~register_listen_ok(active, feed)
       THEN Panic("not allowed to register more than once per subscription")
       ELSE /\ active' = register_listen(active, feed)
            /\ feedees' = Append(feedees, [feed |-> feed,
                                            name |-> current(active'),
                                            items |-> <<>>,
                                            dropped |-> FALSE,
                                            \* the subscriber that the
                                            \* create closure is about to
                                            \* make holds the Feedee
                                            node |-> Len(nodes) + 1])
            /\ queues' = [queues EXCEPT ![feed] =
                    Append(@, [name |-> current(active'),
                               items |-> Len(feedees')])]
            /\ calls' = Advance(calls)
            /\ UNCHANGED <<channel_types, amalgam, emits, listens, STACK,
                           slots, nodes, emitVars, err, recChain,
                           nodeVars, recVars, mailVars, applied, returned>>

\* let item = Rc::new(RefCell::new(T::create(input, hub)))
CreateItem ==
    /\ Running
    /\ STACK # <<>>
    /\ Last(STACK).mode = "Adding"
    /\ Top.item = 0
    /\ Top.pc > Len(Kinds[Top.name].ops)
    /\ nodes' = Append(nodes,
            [name |-> Top.name,
             emits |-> Range(Last(active).emits) \cap SlotNames])
    /\ calls' = [calls EXCEPT ![Len(calls)] =
                    [name |-> Top.name, item |-> Len(nodes'), pc |-> 1]]
    /\ UNCHANGED <<mngVars, STACK, slots, queues, emitVars, err, recChain,
                   nodeVars, recVars, mailVars, contVars>>

\* faulty variant: the element before the item is removed with it
RemoveFirst_and_neighbour(subs, item) ==
    LET idx == CHOOSE i \in 1..Len(subs) : subs[i] = item
    IN SubSeq(subs, 1, idx - 2) \o SubSeq(subs, idx + 1, Len(subs))

\* Vec::remove of the first element that is Rc::ptr_eq to item
RemoveFirst(subs, item) ==
    LET idx == CHOOSE i \in 1..Len(subs) :
                   /\ subs[i] = item
                   /\ \A j \in 1..(i - 1) : subs[j] # item
    IN SubSeq(subs, 1, idx - 1) \o SubSeq(subs, idx + 1, Len(subs))

\* faulty variant: removing an item that is not there is let through
SlotRegister_lenient(slot) ==
    /\ Running
    /\ InRegs
    /\ Kinds[Top.name].regs[Top.pc] = Register(slot)
    /\ IF assert_active_manager(STACK, ManagerOf(slot)) # "none"
       THEN Panic(assert_active_manager(STACK, ManagerOf(slot)))
       ELSE IF Last(STACK).mode = "Adding"
       THEN IF ~register_listen_ok(active, slot)
            THEN Panic("not allowed to register more than once per subscription")
            ELSE /\ active' = register_listen(active, slot)
                 /\ slots' = [slots EXCEPT ![slot] = Append(@, Top.item)]
                 /\ calls' = Advance(calls)
                 /\ UNCHANGED <<channel_types, amalgam, emits, listens,
                                STACK, queues, nodes, emitVars, err, recChain,
                   nodeVars, recVars, mailVars, contVars>>
       ELSE IF Contains(slots[slot], Top.item)
       THEN /\ slots' = [slots EXCEPT ![slot] = RemoveFirst(@, Top.item)]
            /\ calls' = Advance(calls)
            /\ UNCHANGED <<mngVars, STACK, queues, nodes, emitVars,
                           err, recChain,
                   nodeVars, recVars, mailVars, contVars>>
       ELSE /\ calls' = Advance(calls)
            /\ UNCHANGED <<mngVars, STACK, slots, queues, nodes, emitVars,
                           err, recChain, nodeVars, recVars, mailVars, contVars>>

\* faulty variant: the item is put in front of the nodes of the slot
SlotRegister_prepending(slot) ==
    /\ Running
    /\ InRegs
    /\ Kinds[Top.name].regs[Top.pc] = Register(slot)
    /\ IF assert_active_manager(STACK, ManagerOf(slot)) # "none"
       THEN Panic(assert_active_manager(STACK, ManagerOf(slot)))
       ELSE IF Last(STACK).mode = "Adding"
       THEN IF ~register_listen_ok(active, slot)
            THEN Panic("not allowed to register more than once per subscription")
            ELSE /\ active' = register_listen(active, slot)
                 /\ slots' = [slots EXCEPT ![slot] = <<Top.item>> \o @]
                 /\ calls' = Advance(calls)
                 /\ UNCHANGED <<channel_types, amalgam, emits, listens,
                                STACK, queues, nodes, emitVars, err, recChain,
                   nodeVars, recVars, mailVars, contVars>>
       ELSE IF Contains(slots[slot], Top.item)
       THEN /\ slots' = [slots EXCEPT ![slot] = RemoveFirst(@, Top.item)]
            /\ calls' = Advance(calls)
            /\ UNCHANGED <<mngVars, STACK, queues, nodes, emitVars,
                           err, recChain,
                   nodeVars, recVars, mailVars, contVars>>
       ELSE \* `subs`, the RefMut of the slot's nodes, is alive at the panic
            /\ err' = "unable to deregister nonexistent item"
            /\ borrowedSlots' = borrowedSlots \cup {slot}
            /\ UNCHANGED <<mngVars, subVars, emitStack, borrowedNodes,
                           recChain, nodeVars, recVars, mailVars, contVars>>

\* Slot::register, called by register_listens with the item of the call
SlotRegister(slot) ==
    /\ Running
    /\ InRegs
    /\ Kinds[Top.name].regs[Top.pc] = Register(slot)
    /\ IF assert_active_manager(STACK, ManagerOf(slot)) # "none"
       THEN Panic(assert_active_manager(STACK, ManagerOf(slot)))
       ELSE IF Last(STACK).mode = "Adding"
       THEN IF ~register_listen_ok(active, slot)
            THEN Panic("not allowed to register more than once per subscription")
            ELSE /\ active' = register_listen(active, slot)
                 /\ slots' = [slots EXCEPT ![slot] = Append(@, Top.item)]
                 /\ calls' = Advance(calls)
                 /\ UNCHANGED <<channel_types, amalgam, emits, listens,
                                STACK, queues, nodes, emitVars, err, recChain,
                   nodeVars, recVars, mailVars, contVars>>
       ELSE IF Contains(slots[slot], Top.item)
       THEN /\ slots' = [slots EXCEPT ![slot] = RemoveFirst(@, Top.item)]
            /\ calls' = Advance(calls)
            /\ UNCHANGED <<mngVars, STACK, queues, nodes, emitVars,
                           err, recChain,
                   nodeVars, recVars, mailVars, contVars>>
       ELSE \* `subs`, the RefMut of the slot's nodes, is alive at the panic
            /\ err' = "unable to deregister nonexistent item"
            /\ borrowedSlots' = borrowedSlots \cup {slot}
            /\ UNCHANGED <<mngVars, subVars, emitStack, borrowedNodes,
                           recChain, nodeVars, recVars, mailVars, contVars>>

\* Anchor::subscribe, last part: finish_construction, pop the mode
SubscribeEnd ==
    /\ Running
    /\ STACK # <<>>
    /\ Last(STACK).mode = "Adding"
    /\ Top.item # 0
    /\ Top.pc > Len(Kinds[Top.name].regs)
    /\ LET last == Last(active)
           am == finish_amalgam(amalgam, last)
           r == chkrec(am, channel_types)
       IN
       /\ active' = Pop(active)
       /\ amalgam' = am
       /\ listens' = finish_listens(listens, last)
       /\ emits' = finish_emits(emits, last)
       /\ IF r.ok
          THEN /\ STACK' = Pop(STACK)
               /\ calls' = Pop(calls)
               /\ UNCHANGED <<err, recChain,
                   nodeVars, recVars, mailVars, contVars>>
          ELSE /\ err' = IF RecursionPrinter(r.chain, listens', emits').state = "Ok"
                         THEN "found a recursion during subscription"
                         ELSE RecursionPrinter(r.chain, listens', emits').state
               /\ recChain' = r.chain
               /\ UNCHANGED <<STACK, calls,
                   nodeVars, recVars, mailVars, contVars>>
    /\ UNCHANGED <<channel_types, slots, queues, nodes, emitVars,
                   nodeVars, recVars, mailVars, contVars>>

\* Anchor::unsubscribe, first part
UnsubscribeBegin(item) ==
    /\ Running
    /\ emitStack = <<>>
    /\ STACK = <<>>
    /\ item \in 1..Len(nodes)
    /\ STACK' = Append(STACK, [mode |-> "Removing", mng |-> TheManager])
    /\ calls' = Append(calls, [name |-> nodes[item].name, item |-> item,
                               pc |-> 1])
    /\ UNCHANGED <<mngVars, slots, queues, nodes, emitVars, err, recChain,
                   nodeVars, recVars, mailVars, contVars>>

\* Anchor::unsubscribe, last part
UnsubscribeEnd ==
    /\ Running
    /\ STACK # <<>>
    /\ Last(STACK).mode = "Removing"
    /\ Top.pc > Len(Kinds[Top.name].regs)
    /\ STACK' = Pop(STACK)
    /\ calls' = Pop(calls)
    /\ UNCHANGED <<mngVars, slots, queues, nodes, emitVars, err, recChain,
                   nodeVars, recVars, mailVars, contVars>>

----------------------------------------------------------------------------
(* Slot::emit and the handlers it runs *)

\* the subscriber whose handler the innermost Slot::emit is running
RunningNode == slots[Last(emitStack).slot][Last(emitStack).idx]

\* faulty variant: the emit records the slot with the Manager
EnterEmit_recording(slot) ==
    /\ slots[slot] # <<>>
    /\ emitStack' = Append(emitStack, [slot |-> slot, idx |-> 1])
    /\ borrowedSlots' = borrowedSlots \cup {slot}
    /\ borrowedNodes' = borrowedNodes \cup {slots[slot][1]}
    /\ emits' = EntryInsert(emits, slot, {"emit"})
    /\ UNCHANGED <<channel_types, active, amalgam, listens, subVars, err,
                   recChain, nodeVars, recVars, mailVars, contVars>>

\* Slot::emit up to the first call of `caller`: nodes.borrow_mut(), then
\* item.borrow_mut() on the first node
EnterEmit(slot) ==
    IF slot \in borrowedSlots
    THEN Panic("already borrowed")
    ELSE IF slots[slot] = <<>>
    THEN UNCHANGED vars
    ELSE IF slots[slot][1] \in borrowedNodes
    THEN \* item.borrow_mut() panics inside the loop: the RefMut of the
         \* slot's nodes is alive
         /\ err' = "already borrowed"
         /\ borrowedSlots' = borrowedSlots \cup {slot}
         /\ UNCHANGED <<mngVars, subVars, emitStack, borrowedNodes, recChain,
                        nodeVars, recVars, mailVars, contVars>>
    ELSE /\ emitStack' = Append(emitStack, [slot |-> slot, idx |-> 1])
         /\ borrowedSlots' = borrowedSlots \cup {slot}
         /\ borrowedNodes' = borrowedNodes \cup {slots[slot][1]}
         /\ UNCHANGED <<mngVars, subVars, err, recChain,
                   nodeVars, recVars, mailVars, contVars>>

\* hub.slot.emit(..) called by the owner of the anchor
SlotEmit(slot) ==
    /\ Running
    /\ STACK = <<>>
    /\ emitStack = <<>>
    /\ EnterEmit(slot)

\* a running handler emits on a slot its emitter holds a clone of
HandlerEmit(slot) ==
    /\ Running
    /\ emitStack # <<>>
    /\ slot \in nodes[RunningNode].emits
    /\ EnterEmit(slot)

\* the comparators handed to sort_by: the subscribers compared by the order
\* of their creation, and by the reverse of it
Comparators == {"ascending", "descending"}

\* compare(x, y) == Ordering::Less
Less(cmp, x, y) == IF cmp = "ascending" THEN x < y ELSE x > y

\* Vec::sort_by, a stable sort: an element is put behind the elements that
\* are less than it and in front of the others
RECURSIVE sort_by(_, _)
sort_by(v, cmp) ==
    IF v = <<>> THEN <<>>
    ELSE LET rest == sort_by(Tail(v), cmp)
             k == Cardinality({i \in 1..Len(rest) : Less(cmp, rest[i], Head(v))})
         IN SubSeq(rest, 1, k) \o <<Head(v)>> \o SubSeq(rest, k + 1, Len(rest))

\* what Vec::sort_by can leave behind when its comparator panics: the
\* elements it was given, in an order the sort of the toolchain decides;
\* two elements have not moved, because the one comparison there is to make
\* is the one that panics
Interrupted(v) ==
    IF Len(v) <= 2 THEN {v}
    ELSE {p \in [1..Len(v) -> Range(v)] : Range(p) = Range(v)}

\* Slot::sort_by: nodes.borrow_mut(), then Vec::sort_by with a comparator
\* that borrows the two nodes it compares
SortBy(slot, cmp) ==
    IF slot \in borrowedSlots
    THEN Panic("already borrowed")
    ELSE IF Len(slots[slot]) >= 2 /\ Range(slots[slot]) \cap borrowedNodes # {}
    THEN \* x.borrow() or y.borrow() panics in the comparator: the RefMut of
         \* the slot's nodes is alive and the sort is left where it was
         /\ err' = "already mutably borrowed"
         /\ borrowedSlots' = borrowedSlots \cup {slot}
         /\ slots' \in {[slots EXCEPT ![slot] = p] : p \in Interrupted(slots[slot])}
         /\ UNCHANGED <<mngVars, STACK, calls, queues, nodes, emitStack,
                        borrowedNodes, recChain, nodeVars, recVars, mailVars,
                        contVars>>
    ELSE /\ slots' = [slots EXCEPT ![slot] = sort_by(@, cmp)]
         /\ UNCHANGED <<mngVars, STACK, calls, queues, nodes, emitVars, err,
                        recChain, nodeVars, recVars, mailVars, contVars>>

\* hub.slot.sort_by(..) called by the owner of the anchor
SlotSortBy(slot, cmp) ==
    /\ Running
    /\ STACK = <<>>
    /\ emitStack = <<>>
    /\ SortBy(slot, cmp)

\* a running handler sorts a slot its emitter holds a clone of
HandlerSortBy(slot, cmp) ==
    /\ Running
    /\ emitStack # <<>>
    /\ slot \in nodes[RunningNode].emits
    /\ SortBy(slot, cmp)

\* faulty variant: the loop of Slot::emit ends after the first handler
HandlerReturn_first_only ==
    /\ Running
    /\ emitStack # <<>>
    /\ emitStack' = Pop(emitStack)
    /\ borrowedNodes' = borrowedNodes \ {RunningNode}
    /\ borrowedSlots' = borrowedSlots \ {Last(emitStack).slot}
    /\ UNCHANGED <<mngVars, subVars, err, recChain, nodeVars, recVars, mailVars, contVars>>

\* the handler returns: the node's RefMut is dropped and the loop of
\* Slot::emit goes on with the next node, or ends and drops the slot's RefMut
HandlerReturn ==
    /\ Running
    /\ emitStack # <<>>
    /\ LET top == Last(emitStack)
           subs == slots[top.slot]
           released == borrowedNodes \ {RunningNode}
       IN
       IF top.idx < Len(subs)
       THEN IF subs[top.idx + 1] \in released
            THEN \* the RefMut of the node that ran is dropped at the end
                 \* of the loop body, before the next item.borrow_mut()
                 /\ err' = "already borrowed"
                 /\ borrowedNodes' = released
                 /\ UNCHANGED <<mngVars, subVars, emitStack, borrowedSlots,
                                recChain, nodeVars, recVars, mailVars,
                                contVars>>
            ELSE /\ emitStack' = [emitStack EXCEPT ![Len(emitStack)].idx = @ + 1]
                 /\ borrowedNodes' = released \cup {subs[top.idx + 1]}
                 /\ UNCHANGED <<mngVars, subVars, borrowedSlots, err, recChain,
                   nodeVars, recVars, mailVars, contVars>>
       ELSE /\ emitStack' = Pop(emitStack)
            /\ borrowedNodes' = released
            /\ borrowedSlots' = borrowedSlots \ {top.slot}
            /\ UNCHANGED <<mngVars, subVars, err, recChain,
                   nodeVars, recVars, mailVars, contVars>>

----------------------------------------------------------------------------
(* The drop of a Feedee (src/src/feed.rs) *)

\* the owner of the anchor is running, in no Anchor call and in no emit
AtOwner == STACK = <<>> /\ emitStack = <<>>

\* the Feedee is an object a subscriber holds
Live(id) == id \in 1..Len(feedees) /\ ~feedees[id].dropped

\* the handler of the subscriber that holds the Feedee is running
InHandlerOf(id) == emitStack # <<>> /\ feedees[id].node = RunningNode

\* Vec::retain of the queues that are not the queue of the Feedee
Disabled(qs, id) == SelectSeq(qs, LAMBDA q : q.items # id)

\* <Feedee as Drop>::drop: the owner drops the subscriber that holds the
\* Feedee, or a statement `let _ = feed.feedee()` of a register_emits ends
FeedeeDrop(id) ==
    /\ Running
    /\ Live(id)
    /\ \/ /\ AtOwner
          /\ calls' = calls
       \/ /\ InOps
          /\ Kinds[Top.name].ops[Top.pc] = Drop(feedees[id].feed)
          /\ id = Len(feedees)
          /\ calls' = Advance(calls)
    /\ queues' = [queues EXCEPT ![feedees[id].feed] = Disabled(@, id)]
    /\ feedees' = [feedees EXCEPT ![id].dropped = TRUE]
    /\ UNCHANGED <<mngVars, STACK, slots, nodes, emitVars, recChain,
                   nodeVars, recVars, mailVars, applied, returned, err>>

----------------------------------------------------------------------------

Next ==
    \/ \E name \in HandlerNames : SubscribeBegin(name)
    \/ \E slot \in SlotNames : SlotClone(slot)
    \/ \E feed \in FeedNames : FeedFeeder(feed)
    \/ \E feed \in FeedNames : FeedFeedee(feed)
    \/ CreateItem
    \/ \E slot \in SlotNames : SlotRegister(slot)
    \/ SubscribeEnd
    \/ \E item \in 1..MaxNodes : UnsubscribeBegin(item)
    \/ UnsubscribeEnd
    \/ \E slot \in SlotNames : SlotEmit(slot)
    \/ \E slot \in SlotNames : HandlerEmit(slot)
    \/ HandlerReturn
    \/ \E slot \in SlotNames, cmp \in Comparators : SlotSortBy(slot, cmp)
    \/ \E slot \in SlotNames, cmp \in Comparators : HandlerSortBy(slot, cmp)
    \/ \E id \in 1..MaxNodes : FeedeeDrop(id)

Spec == Init /\ [][Next]_vars

TypeOK ==
    /\ DOMAIN amalgam \subseteq ChannelNames
    /\ \A k \in DOMAIN amalgam : amalgam[k] \subseteq ChannelNames
    /\ Len(STACK) = Len(calls)
    /\ Len(nodes) <= MaxNodes

----------------------------------------------------------------------------
(* Channel creation and calls made outside of an Anchor call *)

DuplicateName == "name is already registered to this manager"

Constructors == {"Slot", "Single", "Feed"}

\* the ChannelType a constructor hands to ensure_new; the one of Single::new
\* is not fixed by single.rs
KindsOf(ctor) ==
    IF ctor = "Slot" THEN {"Direct"}
    ELSE IF ctor = "Feed" THEN {"Feed"}
    ELSE {"Direct", "Feed"}

\* faulty variant: the name is not looked up
unique_name_skipped(ct, name) == TRUE

\* the assertion of unique_name
unique_name(ct, name) == name \notin DOMAIN ct

\* Slot::new, Single::new, Feed::new: Manager::ensure_new
ChannelNew(ctor, name, kind) ==
    /\ Running
    /\ STACK = <<>>
    /\ emitStack = <<>>
    /\ kind \in KindsOf(ctor)
    /\ IF ~unique_name(channel_types, name)
       THEN /\ err' = DuplicateName
            /\ lastCall' = [name |-> ctor, target |-> name, prev |-> kind]
            /\ UNCHANGED <<mngVars, subVars, emitVars, recChain,
                           flag, NODE_STACK, items, frames, recVars, mailVars,
                           contVars>>
       ELSE \* BTreeMap::insert
            /\ channel_types' = (name :> kind) @@ channel_types
            /\ lastCall' = [name |-> ctor, target |-> name, prev |-> kind]
            /\ UNCHANGED <<active, amalgam, emits, listens, subVars, emitVars,
                           err, recChain, flag, NODE_STACK, items, frames,
                           recVars, mailVars, contVars>>

\* Slot::clone, Slot::register, Feed::feeder, Feed::feedee, Single::clone or
\* Single::register called by the owner of the anchor while no Anchor call is
\* running
OutsideCall(ch) ==
    /\ Running
    /\ STACK = <<>>
    /\ emitStack = <<>>
    /\ IF assert_active_manager(STACK, ManagerOf(ch)) # "none"
       THEN Panic(assert_active_manager(STACK, ManagerOf(ch)))
       ELSE \* active.last_mut().unwrap() of register_emit, register_listen
            Panic("called Option::unwrap() on a None value")

NextMng ==
    \/ \E name \in DeclNames : SubscribeBegin(name)
    \/ \E slot \in SlotNames \cup ForeignSlots : SlotClone(slot)
    \/ \E feed \in FeedNames : FeedFeeder(feed)
    \/ \E feed \in FeedNames : FeedFeedee(feed)
    \/ CreateItem
    \/ \E slot \in SlotNames \cup ForeignSlots : SlotRegister(slot)
    \/ SubscribeEnd
    \/ \E item \in 1..MaxNodes : UnsubscribeBegin(item)
    \/ UnsubscribeEnd
    \/ \E slot \in SlotNames : SlotEmit(slot)
    \/ \E slot \in SlotNames : HandlerEmit(slot)
    \/ HandlerReturn
    \/ \E slot \in SlotNames, cmp \in Comparators : SlotSortBy(slot, cmp)
    \/ \E slot \in SlotNames, cmp \in Comparators : HandlerSortBy(slot, cmp)
    \/ \E ctor \in Constructors, name \in ChannelNames \cup NewNames,
          kind \in {"Direct", "Feed"} : ChannelNew(ctor, name, kind)
    \/ \E ch \in ChannelNames \cup ForeignSlots : OutsideCall(ch)

SpecMng == Init /\ [][NextMng]_vars

----------------------------------------------------------------------------
(* Recursion: src/src/rec.rs *)

\* Ord for &'static str restricted to the signal names in use
RecOrder == <<"a", "b", "c", "d", "e">>

\* the (parent, child) pairs handed to Recursion::add
RecEdges == {<<"a", "a">>, <<"a", "b">>, <<"b", "a">>, <<"b", "c">>,
             <<"c", "b">>, <<"c", "d">>, <<"d", "e">>, <<"e", "a">>}

\* Recursion::add: entry(parent).or_insert_with(Vec::new), extend(child)
add(map, parent, child) ==
    IF parent \in DOMAIN map
    THEN [map EXCEPT ![parent] = @ \o child]
    ELSE (parent :> child) @@ map

\* faulty variant: the whole path is reported
chain_from_start(chain, idx) == chain

\* chain[idx..].to_vec()
chain_from(chain, idx) == SubSeq(chain, idx, Len(chain))

\* chain.iter().enumerate().find(|(_, x)| x == &child)
Find(chain, child) ==
    CHOOSE i \in 1..Len(chain) :
        chain[i] = child /\ \A j \in 1..(i - 1) : chain[j] # child

RECURSIVE check_internal(_, _, _), check_children(_, _, _, _)
check_internal(map, parent, chain) ==
    IF parent \in DOMAIN map
    THEN check_children(map, map[parent], 1, chain)
    ELSE [state |-> "Ok", chain |-> <<>>]

\* the loop of check_internal over the children of one parent
check_children(map, children, i, chain) ==
    IF i > Len(children) THEN [state |-> "Ok", chain |-> <<>>]
    ELSE LET child == children[i] IN
         IF Contains(chain, child)
         THEN [state |-> "Err", chain |-> chain_from(chain, Find(chain, child))]
         ELSE LET r == check_internal(map, child, Append(chain, child)) IN
              IF r.state = "Err" THEN r
              ELSE check_children(map, children, i + 1, chain)

RECURSIVE check_parents(_, _, _)
\* the loop of Recursion::check over mapping.keys()
check_parents(map, keys, i) ==
    IF i > Len(keys) THEN [state |-> "Ok", chain |-> <<>>]
    ELSE LET r == check_internal(map, keys[i], <<keys[i]>>) IN
         IF r.state = "Err" THEN r ELSE check_parents(map, keys, i + 1)

check(map) ==
    check_parents(map, SelectSeq(RecOrder, LAMBDA x : x \in DOMAIN map), 1)

RecursionAdd(parent, child) ==
    /\ Cardinality({<<k, i>> \in (DOMAIN mapping) \X (1..MaxEdges) :
                        i <= Len(mapping[k])}) < MaxEdges
    /\ mapping' = add(mapping, parent, <<child>>)
    /\ checked' = NotChecked
    /\ returned' = NoReturn
    /\ UNCHANGED <<mngVars, subVars, emitVars, nodeVars, err, recChain,
                   feedees, applied, mailVars>>

\* Recursion::add(parent, &[]): the parent is entered without children
RecursionAddNone(parent) ==
    /\ parent \notin DOMAIN mapping
    /\ mapping' = add(mapping, parent, <<>>)
    /\ checked' = NotChecked
    /\ returned' = NoReturn
    /\ UNCHANGED <<mngVars, subVars, emitVars, nodeVars, err, recChain,
                   feedees, applied, mailVars>>

RecursionCheck ==
    /\ checked' = check(mapping)
    /\ UNCHANGED <<mngVars, subVars, emitVars, nodeVars, err, recChain,
                   mapping, contVars, mailVars>>

\* the panic of collect_descendants, and the end of a recursion without end
NotRegistered == "Node is not registered"
StackOverflow == "stack overflow"

RECURSIVE collect_descendants(_, _, _, _), collect_children(_, _, _, _, _)
\* Recursion::collect_descendants with the HashSet `set`; `path` holds the
\* parents of the calls in progress.  A call for a parent that is on the
\* path and not in the set repeats the calls made since the first one for
\* that parent, so the recursion has no end
collect_descendants(map, parent, set, path) ==
    IF parent \notin DOMAIN map
    THEN [state |-> NotRegistered, set |-> set]
    ELSE collect_children(map, map[parent], 1, set, Append(path, parent))

\* the loop of collect_descendants over the children of one parent
collect_children(map, children, i, set, path) ==
    IF i > Len(children) THEN [state |-> "Ok", set |-> set]
    ELSE LET child == children[i] IN
         IF child \notin set
         THEN IF Contains(path, child)
              THEN [state |-> StackOverflow, set |-> set]
              ELSE LET r == collect_descendants(map, child, set, path) IN
                   IF r.state # "Ok" THEN r
                   ELSE collect_children(map, children, i + 1,
                                         r.set \cup {child}, path)
         ELSE collect_children(map, children, i + 1, set \cup {child}, path)

RECURSIVE is_chained_from(_, _, _)
\* the outer loop of Recursion::is_chained, from its turn idx on
is_chained_from(map, signals, idx) ==
    IF idx > Len(signals)
    THEN [state |-> "Ok", from |-> "none", to |-> "none"]
    ELSE LET r == collect_descendants(map, signals[idx], {}, <<>>)
             hits == {redex \in 1..Len(signals) :
                         redex # idx /\ signals[redex] \in r.set}
         IN IF r.state # "Ok"
            THEN [state |-> r.state, from |-> "none", to |-> "none"]
            ELSE IF hits # {}
            THEN [state |-> "Err", from |-> signals[idx],
                  to |-> signals[CHOOSE redex \in hits :
                                     \A h \in hits : redex <= h]]
            ELSE is_chained_from(map, signals, idx + 1)

\* a faulty variant of is_chained: only the children of a signal are looked
\* at, not their descendants
is_chained_children(map, signals) ==
    LET hits == {p \in (1..Len(signals)) \X (1..Len(signals)) :
                    /\ p[1] # p[2]
                    /\ signals[p[1]] \in DOMAIN map
                    /\ Contains(map[signals[p[1]]], signals[p[2]])}
    IN IF hits = {}
       THEN [state |-> "Ok", from |-> "none", to |-> "none"]
       ELSE LET p == CHOOSE p \in hits : TRUE
            IN [state |-> "Err", from |-> signals[p[1]],
                to |-> signals[p[2]]]

is_chained(map, signals) == is_chained_from(map, signals, 1)

\* the signals of the runs of Recursion::is_chained, the (parent, child)
\* pairs added in them and the lists handed to is_chained
ChainNames == {"a", "b", "c"}
ChainEdges == {<<"a", "b">>, <<"b", "c">>, <<"a", "c">>, <<"c", "a">>}
SignalLists ==
    UNION {[1..n -> ChainNames] : n \in 0..MaxSignals}

RecursionIsChained(signals) ==
    /\ returned' = [call |-> "Recursion::is_chained", of |-> 0,
                    value |-> <<[signals |-> signals,
                                 result |-> is_chained(mapping, signals)]>>]
    /\ UNCHANGED <<mngVars, subVars, emitVars, nodeVars, err, recChain,
                   recVars, feedees, applied, mailVars>>

NextRec ==
    \/ \E e \in RecEdges : RecursionAdd(e[1], e[2])
    \/ RecursionCheck

NextChained ==
    \/ \E e \in ChainEdges : RecursionAdd(e[1], e[2])
    \/ \E parent \in ChainNames : RecursionAddNone(parent)
    \/ RecursionCheck
    \/ \E signals \in SignalLists : RecursionIsChained(signals)

SpecChained == Init /\ [][NextChained]_vars

SpecRec == Init /\ [][NextRec]_vars

----------------------------------------------------------------------------
(* Node and Channel: src/src/node.rs, src/src/channel.rs *)

\* panics of the Node library
AlreadyBorrowed == "revent: emit: accessing already borrowed item"
NotInContext    == "NotInContext"
UnexpectedItem  == "UnexpectedItem"

\* relative positions handed to Channel::insert
Relatives == {0}

\* an object that is in no Node, as a target of suspend
Outside == 3
Targets == Cells \cup {Outside}

\* BorrowFlag: 0 unused, -1 borrowed mutably, n > 0 borrowed n times
is_borrowed(f) == f # 0
is_writing(f) == f < 0
borrow_mut(f) == -1
unborrow_mut(f) == 0
borrow(f) == f + 1
unborrow(f) == f - 1

\* one call in progress: Node::emit ("emit"), the read-only dispatch
\* ("emit_ref"), a closure run by suspend ("suspend") or the loop of
\* Channel::emit ("channel")
Frame(kind, id) ==
    [kind |-> kind, id |-> id, idx |-> 0, saved |-> 0]

\* the record of a call: its name and target and, when it panics, the call
\* made before it
Call(name, target) ==
    [name |-> name, target |-> target,
     prev |-> IF err' # "none" THEN lastCall.name ELSE "none"]

IsDispatch(f) == f.kind \in {"emit", "emit_ref"}

\* code runs at top level, in a handler or in a closure given to suspend
AtTop == frames = <<>>
InHandler == frames # <<>> /\ IsDispatch(Last(frames))
InClosure == frames # <<>> /\ Last(frames).kind = "suspend"
CanCall ==
    /\ err = "none"
    /\ Len(frames) < MaxFrames
    /\ AtTop \/ InHandler \/ InClosure

\* faulty variant: an equal position always goes after its equals
InsertAt_appending(s, e, i) ==
    LET before == SelectSeq(s, LAMBDA x : x.rel <= e.rel)
        after  == SelectSeq(s, LAMBDA x : x.rel > e.rel)
    IN before \o <<e>> \o after

\* IsizeVec::insert: entries ordered by relative position; an equal
\* position goes after its equals when it is not negative, before them
\* when it is
RECURSIVE InsertAt(_, _, _)
InsertAt(s, e, i) ==
    IF i > Len(s) THEN Append(s, e)
    ELSE IF \/ s[i].rel > e.rel
            \/ (s[i].rel = e.rel /\ e.rel < 0)
         THEN SubSeq(s, 1, i - 1) \o <<e>> \o SubSeq(s, i, Len(s))
         ELSE InsertAt(s, e, i + 1)

\* faulty variant: only the first occurrence of the node is taken out
RECURSIVE Retain_first(_, _)
Retain_first(s, node) ==
    IF s = <<>> THEN <<>>
    ELSE IF Head(s).node = node THEN Tail(s)
         ELSE <<Head(s)>> \o Retain_first(Tail(s), node)

\* Vec::retain
RECURSIVE Retain(_, _)
Retain(s, node) ==
    IF s = <<>> THEN <<>>
    ELSE IF Head(s).node = node THEN Retain(Tail(s), node)
         ELSE <<Head(s)>> \o Retain(Tail(s), node)

(* Channel::insert *)
ChannelInsertCall(ch, relative, node) ==
    /\ err = "none"
    /\ AtTop
    /\ items' = [items EXCEPT
                    ![ch] = InsertAt(@, [rel |-> relative, node |-> node], 1)]
    /\ lastCall' = NoCall
    /\ UNCHANGED <<flag, NODE_STACK, frames, err, libVars>>

ChannelInsert(ch, relative, node) ==
    /\ Len(items[ch]) < MaxItems
    /\ ChannelInsertCall(ch, relative, node)

(* Channel::remove *)
ChannelRemove(ch, node) ==
    /\ err = "none"
    /\ AtTop
    /\ \E i \in 1..Len(items[ch]) : items[ch][i].node = node
    /\ items' = [items EXCEPT ![ch] = Retain(@, node)]
    /\ lastCall' = NoCall
    /\ UNCHANGED <<flag, NODE_STACK, frames, err, libVars>>

\* Node::emit up to the call of the handler, without the borrow check
EnterNode_unchecked(fr, fl, st, cell) ==
    /\ flag' = [fl EXCEPT ![cell] = borrow_mut(@)]
    /\ NODE_STACK' = Append(st, cell)
    /\ frames' = Append(fr, Frame("emit", cell))
    /\ err' = err

\* Node::emit up to the call of the handler, without the STACK entry
EnterNode_unpushed(fr, fl, st, cell) ==
    IF is_borrowed(fl[cell])
    THEN /\ err' = AlreadyBorrowed
         /\ flag' = fl
         /\ NODE_STACK' = st
         /\ frames' = fr
    ELSE /\ flag' = [fl EXCEPT ![cell] = borrow_mut(@)]
         /\ NODE_STACK' = st
         /\ frames' = Append(fr, Frame("emit", cell))
         /\ err' = err

\* Node::emit up to the call of the handler, leaving the flag alone
EnterNode_unborrowed(fr, fl, st, cell) ==
    IF is_borrowed(fl[cell])
    THEN /\ err' = AlreadyBorrowed
         /\ flag' = fl
         /\ NODE_STACK' = st
         /\ frames' = fr
    ELSE /\ flag' = fl
         /\ NODE_STACK' = Append(st, cell)
         /\ frames' = Append(fr, Frame("emit", cell))
         /\ err' = err

\* a faulty variant of EnterNode: the flag is taken and the entry pushed
\* before the flag is looked at
EnterNode_checked_late(fr, fl, st, cell) ==
    /\ flag' = [fl EXCEPT ![cell] = borrow_mut(@)]
    /\ NODE_STACK' = Append(st, cell)
    /\ IF is_borrowed(fl[cell])
       THEN /\ err' = AlreadyBorrowed
            /\ frames' = fr
       ELSE /\ frames' = Append(fr, Frame("emit", cell))
            /\ err' = err

\* Node::emit up to the call of the handler, on call chain fr, flags fl and
\* context stack st
EnterNode(fr, fl, st, cell) ==
    IF is_borrowed(fl[cell])
    THEN /\ err' = AlreadyBorrowed
         /\ flag' = fl
         /\ NODE_STACK' = st
         /\ frames' = fr
    ELSE /\ flag' = [fl EXCEPT ![cell] = borrow_mut(@)]
         /\ NODE_STACK' = Append(st, cell)
         /\ frames' = Append(fr, Frame("emit", cell))
         /\ err' = err

(* Node::emit called on a node *)
NodeEmit(cell) ==
    /\ CanCall
    /\ EnterNode(frames, flag, NODE_STACK, cell)
    /\ lastCall' = Call("emit", cell)
    /\ UNCHANGED <<items, libVars>>

(* the read-only dispatch on a node *)
NodeEmitRef(cell) ==
    /\ CanCall
    /\ IF is_writing(flag[cell])
       THEN /\ err' = AlreadyBorrowed
            /\ UNCHANGED <<flag, NODE_STACK, frames>>
       ELSE /\ flag' = [flag EXCEPT ![cell] = borrow(@)]
            /\ NODE_STACK' = Append(NODE_STACK, cell)
            /\ frames' = Append(frames, Frame("emit_ref", cell))
            /\ err' = err
    /\ lastCall' = Call("emit_ref", cell)
    /\ UNCHANGED <<items, libVars>>

(* Channel::emit called on a channel: the loop over the items starts *)
ChannelEmit(ch) ==
    /\ CanCall
    /\ Len(frames) + 1 < MaxFrames
    /\ frames' = Append(frames, Frame("channel", ch))
    /\ UNCHANGED <<flag, NODE_STACK, items, err, libVars>>
    /\ lastCall' = Call("channel", 0)

(* Channel::emit, one turn of the loop: Node::emit on the next item, or
   the end of the loop *)
ChannelNext ==
    /\ err = "none"
    /\ frames # <<>>
    /\ Last(frames).kind = "channel"
    /\ LET f == Last(frames)
       IN IF f.idx < Len(items[f.id])
          THEN /\ EnterNode([frames EXCEPT ![Len(frames)].idx = f.idx + 1],
                            flag, NODE_STACK, items[f.id][f.idx + 1].node)
               /\ lastCall' = Call("channel_emit", items[f.id][f.idx + 1].node)
          ELSE /\ frames' = Pop(frames)
               /\ lastCall' = NoCall
               /\ UNCHANGED <<flag, NODE_STACK, err>>
    /\ UNCHANGED <<items, libVars>>

\* the handler returns and Node::emit leaves the flag as it is
NodeReturn_unreleased ==
    /\ err = "none"
    /\ InHandler
    /\ LET f  == Last(frames)
           fl == flag
           st == Pop(NODE_STACK)
           fr == Pop(frames)
       IN /\ flag' = fl
          /\ NODE_STACK' = st
          /\ frames' = fr
          /\ lastCall' = NoCall
    /\ UNCHANGED <<items, err, libVars>>

(* the handler returns: the rest of Node::emit *)
NodeReturn ==
    /\ err = "none"
    /\ InHandler
    /\ LET f  == Last(frames)
           fl == [flag EXCEPT ![f.id] = IF f.kind = "emit"
                                        THEN unborrow_mut(@)
                                        ELSE unborrow(@)]
           st == Pop(NODE_STACK)
           fr == Pop(frames)
       IN /\ flag' = fl
          /\ NODE_STACK' = st
          /\ frames' = fr
          /\ lastCall' = NoCall
    /\ UNCHANGED <<items, err, libVars>>

\* a faulty variant of SuspendCall: the entry of the suspended dispatch is
\* taken off the context stack
SuspendCall_popping(target) ==
    /\ CanCall
    /\ InClosure => target # Last(frames).id
    /\ IF NODE_STACK = <<>>
       THEN /\ err' = NotInContext
            /\ UNCHANGED <<flag, NODE_STACK, frames>>
       ELSE IF Last(NODE_STACK) # target
       THEN /\ err' = UnexpectedItem
            /\ UNCHANGED <<flag, NODE_STACK, frames>>
       ELSE /\ flag' = [flag EXCEPT ![target] = IF is_writing(@)
                                                THEN unborrow_mut(@)
                                                ELSE unborrow(@)]
            /\ frames' = Append(frames, [Frame("suspend", target)
                                            EXCEPT !.saved = flag[target]])
            /\ NODE_STACK' = Pop(NODE_STACK)
            /\ UNCHANGED err
    /\ lastCall' = Call("suspend", target)
    /\ UNCHANGED <<items, libVars>>

(* Suspend::suspend called on target, up to the call of the closure *)
SuspendCall(target) ==
    /\ CanCall
    \* the handler lends the only reference to its item to suspend for the
    \* time of the closure
    /\ InClosure => target # Last(frames).id
    /\ IF NODE_STACK = <<>>
       THEN /\ err' = NotInContext
            /\ UNCHANGED <<flag, NODE_STACK, frames>>
       ELSE IF Last(NODE_STACK) # target
       THEN /\ err' = UnexpectedItem
            /\ UNCHANGED <<flag, NODE_STACK, frames>>
       ELSE /\ flag' = [flag EXCEPT ![target] = IF is_writing(@)
                                                THEN unborrow_mut(@)
                                                ELSE unborrow(@)]
            /\ frames' = Append(frames, [Frame("suspend", target)
                                            EXCEPT !.saved = flag[target]])
            /\ UNCHANGED <<NODE_STACK, err>>
    /\ lastCall' = Call("suspend", target)
    /\ UNCHANGED <<items, libVars>>

(* the closure given to suspend returns: the rest of Suspend::suspend *)
SuspendReturn ==
    /\ err = "none"
    /\ InClosure
    /\ LET f == Last(frames)
           fr == Pop(frames)
       IN /\ flag' = [flag EXCEPT ![f.id] = f.saved]
          /\ frames' = fr
          /\ lastCall' = [NoCall EXCEPT !.name = "suspend_return",
                                         !.target = f.id]
    /\ UNCHANGED <<NODE_STACK, items, err, libVars>>

NextNode ==
    \/ \E ch \in ChannelIds, r \in Relatives, n \in Cells :
           ChannelInsert(ch, r, n)
    \/ \E ch \in ChannelIds, n \in Cells : ChannelRemove(ch, n)
    \/ \E n \in Cells : NodeEmit(n)
    \/ \E n \in Cells : NodeEmitRef(n)
    \/ \E ch \in ChannelIds : ChannelEmit(ch)
    \/ ChannelNext
    \/ NodeReturn
    \/ \E t \in Targets : SuspendCall(t)
    \/ SuspendReturn

SpecNode == Init /\ [][NextNode]_vars

(* One Channel under insert, remove and emit from outside any handler, with
   relative positions of both signs (channel.rs tests
   inserting_appends_or_prepends, basic, haystack) *)
TheChannel == "channel_1"
ChanRelatives == {-1, 0, 1}

NextChan ==
    \/ \E r \in ChanRelatives, n \in Cells :
           /\ Len(items[TheChannel]) < MaxInserts
           /\ ChannelInsertCall(TheChannel, r, n)
    \/ \E n \in Cells : ChannelRemove(TheChannel, n)
    \/ AtTop /\ ChannelEmit(TheChannel)
    \/ ChannelNext
    \/ NodeReturn

SpecChan == Init /\ [][NextChan]_vars

TypeOKNode ==
    /\ flag \in [Cells -> -1..MaxFrames]
    /\ \A ch \in ChannelIds : Len(items[ch]) <= MaxItems
    /\ Len(frames) <= MaxFrames
    /\ Len(NODE_STACK) <= Len(frames)

----------------------------------------------------------------------------
(* Graph vocabulary for the properties *)

\* all edges of the amalgam map
Edges(am) == {e \in ChannelNames \X ChannelNames :
                 e[1] \in DOMAIN am /\ e[2] \in am[e[1]]}

\* the edges cycle detection looks at: both ends Direct
DirectEdges(am, ct) ==
    {e \in Edges(am) : ct[e[1]] = "Direct" /\ ct[e[2]] = "Direct"}

RECURSIVE Closure(_)
Closure(R) ==
    LET R2 == R \cup {e \in ChannelNames \X ChannelNames :
                         \E y \in ChannelNames :
                             <<e[1], y>> \in R /\ <<y, e[2]>> \in R}
    IN IF R2 = R THEN R ELSE Closure(R2)

Acyclic(R) == \A x \in ChannelNames : <<x, x>> \notin Closure(R)

Recursion == "found a recursion during subscription"

\* the step is the finish_construction of the innermost subscribe
IsSubscribeEnd == Len(active') < Len(active)

\* subscriber objects whose subscribe call has returned
Finished == {n \in 1..Len(nodes) :
                \A i \in 1..Len(calls) :
                    calls[i].item = n => STACK[i].mode = "Removing"}

Member(n) == \E s \in SlotNames : Contains(slots[s], n)

\* the listen -> emit pairs a subscriber declared
NodeEdges(n) == ListensOf(nodes[n].name) \X EmitsOf(nodes[n].name)

----------------------------------------------------------------------------
(* C1 *)

\* C1: when every subscribe returned and handlers emit only on the slots
\* they cloned, no emit reaches a slot whose emit is in progress or a node
\* whose handler is running: no RefCell is found already borrowed, and the
\* nested emits in progress are on pairwise different slots and nodes.
C1_NoDoubleBorrow ==
    /\ err # "already borrowed"
    /\ \A i, j \in 1..Len(emitStack) :
           i # j => /\ emitStack[i].slot # emitStack[j].slot
                    /\ slots[emitStack[i].slot][emitStack[i].idx]
                         # slots[emitStack[j].slot][emitStack[j].idx]

\* three emits nested through two handlers
C1_Witness == Running /\ Len(emitStack) = 3

----------------------------------------------------------------------------
(* C2 *)

\* C2 as stated: after every successful subscription the amalgam map has no
\* cycle.
C2_AmalgamAcyclic == Running => Acyclic(Edges(amalgam))

\* C2 amended: after every successful subscription the amalgam map has no
\* cycle that runs through Direct channels only.
C2_DirectAcyclic == Running => Acyclic(DirectEdges(amalgam, channel_types))

\* a two-hop direct path next to a cycle through the feed, all accepted
C2_Witness ==
    /\ Running
    /\ STACK = <<>>
    /\ \E x, y, z \in SlotNames :
           {<<x, y>>, <<y, z>>} \subseteq DirectEdges(amalgam, channel_types)
    /\ ~Acyclic(Edges(amalgam))

----------------------------------------------------------------------------
(* C3 *)

\* C3 as stated: closing a frame that listens on X and emits on Y, where Y
\* already reaches X in the graph or X = Y, fails with the recursion error.
C3_ClosingRejected ==
    [][(IsSubscribeEnd /\
        \E x \in Range(Last(active).listens), y \in Range(Last(active).emits) :
            x = y \/ <<y, x>> \in Closure(Edges(amalgam)))
       => err' = Recursion]_vars

\* C3 amended: closing a frame that listens on a Direct channel X and emits
\* on a Direct channel Y, where Y already reaches X through Direct channels
\* only or X = Y, fails with the recursion error.
C3_DirectClosingRejected ==
    [][(IsSubscribeEnd /\
        \E x \in Range(Last(active).listens), y \in Range(Last(active).emits) :
            /\ channel_types[x] = "Direct"
            /\ channel_types[y] = "Direct"
            /\ \/ x = y
               \/ <<y, x>> \in Closure(DirectEdges(amalgam, channel_types)))
       => err' = Recursion]_vars

\* a subscription was rejected for a cycle of three hops
C3_Witness == err = Recursion /\ Len(recChain) = 4

----------------------------------------------------------------------------
(* C4 *)

\* C4: a subscription rejected with the recursion error has no side effects:
\* the failing call leaves amalgam, listens and emits as they were and its
\* item is in no slot.
C4_RejectionNoSideEffects ==
    [][err' = Recursion =>
           /\ amalgam' = amalgam
           /\ listens' = listens
           /\ emits' = emits
           /\ \A s \in SlotNames : ~Contains(slots'[s], Top.item)]_vars

----------------------------------------------------------------------------
(* C5 *)

\* C5: the steps of an unsubscribe leave amalgam, listens and emits
\* unchanged, and closing a frame whose edges form a Direct cycle with the
\* edges of the subscribers subscribed so far, unsubscribed ones included,
\* fails with the recursion error.
C5_UnsubscribeKeepsEdges ==
    [][/\ (\/ STACK # <<>> /\ Last(STACK).mode = "Removing"
           \/ Len(STACK') > Len(STACK) /\ Last(STACK').mode = "Removing")
          => /\ amalgam' = amalgam
             /\ listens' = listens
             /\ emits' = emits
       /\ (IsSubscribeEnd /\
           ~Acyclic({e \in UNION {NodeEdges(n) : n \in Finished \cup {Top.item}} :
                        channel_types[e[1]] = "Direct"
                        /\ channel_types[e[2]] = "Direct"}))
          => err' = Recursion]_vars

\* a subscription was rejected for a cycle one hop of which was declared
\* only by a subscriber that is no longer in any slot
C5_Witness ==
    /\ err = Recursion
    /\ \E n \in Finished :
           /\ ~Member(n)
           /\ \E i \in 1..(Len(recChain) - 1) :
                  /\ <<recChain[i], recChain[i + 1]>> \in NodeEdges(n)
                  /\ \A m \in 1..Len(nodes) :
                         (m # n /\ <<recChain[i], recChain[i + 1]>> \in NodeEdges(m))
                         => m = Top.item

----------------------------------------------------------------------------
(* Dispatch vocabulary for the properties *)

DispatchFrames == {i \in 1..Len(frames) : IsDispatch(frames[i])}

\* the dispatches in progress on a node, and those of one kind
On(n) == {i \in DispatchFrames : frames[i].id = n}
OnAs(n, kind) == {i \in On(n) : frames[i].kind = kind}

\* the dispatch runs a closure given to suspend
Suspended(i) == i < Len(frames) /\ frames[i + 1].kind = "suspend"

\* the holds of one kind on a node that are not suspended
Holds(n, kind) == {i \in OnAs(n, kind) : ~Suspended(i)}

\* the node of the innermost dispatch in progress
Innermost == frames[CHOOSE i \in DispatchFrames :
                        \A j \in DispatchFrames : j <= i].id

\* the step is a call of Node::emit on n, made directly or by Channel::emit
EmitAttempt(n) ==
    /\ lastCall'.name \in {"emit", "channel_emit"}
    /\ lastCall'.target = n

\* the step entered the handler of n
Entered(n) ==
    /\ err' = "none"
    /\ Last(frames').kind = "emit"
    /\ Last(frames') = Frame("emit", n)
    /\ Cardinality({i \in 1..Len(frames') :
                       IsDispatch(frames'[i]) /\ frames'[i].id = n})
         = Cardinality(On(n)) + 1

----------------------------------------------------------------------------
(* C6 *)

\* C6: an emit on a node all of whose dispatches in progress are suspended,
\* made directly or through a channel that holds the node, raises no error
\* and invokes the handler of the node exactly once more, however many
\* suspended dispatches of the node are in progress.
C6_SuspendedReentry ==
    [][\A n \in Cells :
          (/\ EmitAttempt(n)
           /\ On(n) # {}
           /\ \A i \in On(n) : Suspended(i))
          => Entered(n)]_vars

\* a handler runs for the third time inside two of its own suspended
\* dispatches, the last one entered through channel_2
C6_Witness ==
    /\ err = "none"
    /\ Len(frames) >= 2
    /\ IsDispatch(Last(frames))
    /\ frames[Len(frames) - 1].kind = "channel"
    /\ frames[Len(frames) - 1].id = "channel_2"
    /\ Cardinality(OnAs(Last(frames).id, "emit")) = 3

----------------------------------------------------------------------------
(* C7 *)

\* C7: an emit on a node that has an emit in progress which is not
\* suspended fails with the already borrowed panic, whether the node is
\* called directly or through a channel.
C7_NestedEmitFails ==
    [][\A n \in Cells :
          (EmitAttempt(n) /\ Holds(n, "emit") # {})
          => err' = AlreadyBorrowed]_vars

\* the handler of a node entered through one channel emits the other
\* channel, which holds the same node, and the emit panics
C7_Witness ==
    /\ err = AlreadyBorrowed
    /\ lastCall.name = "channel_emit"
    /\ Last(frames).kind = "channel"
    /\ \E i \in 1..(Len(frames) - 1) :
           /\ frames[i].kind = "channel"
           /\ frames[i].id # Last(frames).id
           /\ frames[i + 1].kind = "emit"
           /\ frames[i + 1] = Frame("emit", lastCall.target)
           /\ ~Suspended(i + 1)

----------------------------------------------------------------------------
(* C8 *)

\* C8: no node has two exclusive holds that are not suspended, and no node
\* has an exclusive hold and a shared hold that are both not suspended.
C8_HoldsExclude ==
    \A n \in Cells :
        /\ Cardinality(Holds(n, "emit")) <= 1
        /\ Holds(n, "emit") # {} => Holds(n, "emit_ref") = {}

\* a node is held exclusively while a shared and an exclusive dispatch of
\* the same node are suspended
C8_Witness ==
    \E n \in Cells :
        /\ Cardinality(Holds(n, "emit")) = 1
        /\ Cardinality(OnAs(n, "emit")) = 2
        /\ OnAs(n, "emit_ref") # {}

----------------------------------------------------------------------------
(* C9 *)

\* C9: the context stack is empty when no dispatch is in progress and its
\* top entry is the node of the innermost dispatch otherwise; suspend called
\* on an empty context stack fails with NotInContext, suspend called on
\* anything but the node of the top entry fails with UnexpectedItem, and in
\* both cases every flag is left as it was.
C9_SuspendTargeting ==
    [][lastCall'.name = "suspend" =>
          /\ DispatchFrames = {} => NODE_STACK = <<>>
          /\ DispatchFrames # {} =>
                 NODE_STACK # <<>> /\ Last(NODE_STACK) = Innermost
          /\ NODE_STACK = <<>> =>
                 err' = NotInContext /\ flag' = flag
          /\ (NODE_STACK # <<>> /\ Last(NODE_STACK) # lastCall'.target) =>
                 err' = UnexpectedItem /\ flag' = flag]_vars

\* a handler called suspend on a node whose dispatch is in progress further
\* out, and the node is still held
C9_Witness ==
    /\ err = UnexpectedItem
    /\ lastCall.name = "suspend"
    /\ \E i \in 1..(Len(NODE_STACK) - 1) : NODE_STACK[i] = lastCall.target
    /\ flag[lastCall.target] = -1

----------------------------------------------------------------------------
(* C10 *)

\* C10: when the closure given to suspend has returned the flag of the node
\* is what the dispatch set before the suspend, -1 for an emit and the
\* number of shared holds for a read-only dispatch, and an emit on the node
\* made next fails with the already borrowed panic.
C10_SuspendRestores ==
    [][lastCall.name = "suspend_return" =>
          /\ InHandler
          /\ Last(frames).id = lastCall.target
          /\ flag[lastCall.target]
               = IF Last(frames).kind = "emit"
                 THEN -1
                 ELSE Cardinality(Holds(lastCall.target, "emit_ref"))
          /\ EmitAttempt(lastCall.target) => err' = AlreadyBorrowed]_vars

\* a handler emitted on its own node right after its suspend returned, and
\* the emit panicked
C10_Witness ==
    /\ err = AlreadyBorrowed
    /\ lastCall.name = "emit"
    /\ lastCall.prev = "suspend_return"
    /\ InHandler
    /\ Last(frames).kind = "emit"
    /\ Last(frames) = Frame("emit", lastCall.target)

----------------------------------------------------------------------------
(* C11 *)

\* C11: Slot::emit starts with the first node of the slot, goes from one
\* node to the next, and returns only after the last one, while the nodes of
\* the slot, and of every slot whose emit is in progress, stay as they
\* were; the node it calls is the one whose handler
\* runs, and an emit made by a handler is started and finished before the
\* emit that called the handler goes on: n nodes give n invocations.
C11_EmitVisitsAll ==
    [][/\ \A i \in 1..Len(emitStack) :
              slots'[emitStack[i].slot] = slots[emitStack[i].slot]
       /\ \A i \in 1..(Len(emitStack) - 1) :
              i <= Len(emitStack') => emitStack'[i] = emitStack[i]
       /\ Len(emitStack') > Len(emitStack) =>
              /\ Len(emitStack') = Len(emitStack) + 1
              /\ Last(emitStack').idx = 1
       /\ (Len(emitStack') = Len(emitStack) /\ emitStack' # emitStack) =>
              /\ Last(emitStack').slot = Last(emitStack).slot
              /\ Last(emitStack').idx = Last(emitStack).idx + 1
       /\ Len(emitStack') < Len(emitStack) =>
              /\ Len(emitStack') = Len(emitStack) - 1
              /\ Last(emitStack).idx = Len(slots[Last(emitStack).slot])
       /\ (emitStack' # <<>> /\ emitStack' # emitStack
           /\ Len(emitStack') >= Len(emitStack)) =>
              /\ Last(emitStack').idx <= Len(slots[Last(emitStack').slot])
              /\ slots[Last(emitStack').slot][Last(emitStack').idx]
                    \in borrowedNodes'
              /\ Len(emitStack') > Len(emitStack) =>
                    slots[Last(emitStack').slot][1] \notin borrowedNodes]_vars

\* the handler of the second of two nodes of a slot runs an emit of its own
C11_Witness ==
    /\ Running
    /\ Len(emitStack) = 2
    /\ emitStack[1].idx = 2
    /\ Len(slots[emitStack[1].slot]) = 2

----------------------------------------------------------------------------
(* C12 *)

Adding(stack) == stack # <<>> /\ Last(stack).mode = "Adding"

\* C12: a step of an emit (one that starts, continues or ends a Slot::emit)
\* leaves the channel types, the amalgam, the listens and emits maps and the
\* construction frames as they are and reports no recursion; the Manager's
\* state changes only in a step of a subscribe, or in a channel creation,
\* which adds one name to the channel types and nothing else.
C12_EmitLeavesManager ==
    [][/\ (emitStack # <<>> \/ emitStack' # <<>>) =>
              /\ mngVars' = mngVars
              /\ recChain' = recChain
              /\ err' # Recursion
       /\ mngVars' # mngVars =>
              \/ Adding(STACK) \/ Adding(STACK')
              \/ /\ STACK = <<>> /\ STACK' = <<>>
                 /\ <<active, amalgam, emits, listens>>' =
                        <<active, amalgam, emits, listens>>
                 /\ \E n \in NewNames :
                        /\ n \notin DOMAIN channel_types
                        /\ DOMAIN channel_types' = DOMAIN channel_types \cup {n}]_vars

\* a handler called by an emit emits itself, with subscriptions recorded
C12_Witness ==
    /\ Running
    /\ Len(emitStack) = 2
    /\ amalgam # EmptyMap
    /\ "d" \in DOMAIN channel_types

----------------------------------------------------------------------------
(* C13 *)

\* C13: a call of a constructor with a name the Manager already holds fails
\* with the duplicate-name error whatever kind the name has and whatever kind
\* is asked for, the same kind included, and the channel types stay as they
\* were; nothing else fails with that error; no step removes a name or gives
\* a registered name another kind, and a step that changes the channel types
\* adds exactly one name that was not registered.
C13_DuplicateNameFails ==
    [][/\ \A n \in DOMAIN channel_types :
              /\ n \in DOMAIN channel_types'
              /\ channel_types'[n] = channel_types[n]
       /\ (/\ lastCall'.name \in Constructors
           /\ lastCall.name \in Constructors => lastCall' # lastCall
           /\ lastCall'.target \in DOMAIN channel_types) =>
              /\ err' = DuplicateName
              /\ channel_types' = channel_types
       /\ (err = "none" /\ err' = DuplicateName) =>
              /\ lastCall'.name \in Constructors
              /\ lastCall'.target \in DOMAIN channel_types
              /\ channel_types' = channel_types
       /\ channel_types' # channel_types =>
              /\ err' = "none"
              /\ Cardinality(DOMAIN channel_types') =
                     Cardinality(DOMAIN channel_types) + 1]_vars

\* Slot::new on the name of a Slot has failed, the name keeping its kind
\* (tests::double_subscription of slot.rs)
C13_Witness ==
    /\ err = DuplicateName
    /\ lastCall.name = "Slot"
    /\ lastCall.prev = "Direct"
    /\ channel_types[lastCall.target] = "Direct"

----------------------------------------------------------------------------
(* C14 *)

CloneTwice    == "not allowed to clone more than once per subscription"
RegisterTwice == "not allowed to register more than once per subscription"

NoDuplicates(s) == \A i, j \in 1..Len(s) : s[i] = s[j] => i = j

\* the statement the innermost Anchor call is about to execute
Statement ==
    IF InOps THEN Kinds[Top.name].ops[Top.pc]
    ELSE IF InRegs THEN Kinds[Top.name].regs[Top.pc]
    ELSE <<"none", "none">>

\* the statement records its channel with the Manager of the running subscribe
Declares(what) ==
    /\ Running
    /\ Adding(STACK)
    /\ Statement[1] \in what
    /\ ManagerOf(Statement[2]) = Last(STACK).mng

\* C14: a statement that records an emit (clone, feeder) fails with the
\* clone-twice error exactly when its channel is already among the emits of
\* the innermost frame, one that records a listen (register, feedee) fails
\* with the register-twice error exactly when its channel is already among
\* the listens of the innermost frame; the other frames and the other list
\* of the same frame play no part, so no frame ever lists a channel twice in
\* one list.
C14_TwiceInOneFrame ==
    [][/\ Declares({"clone", "feeder"}) =>
              IF Contains(Last(active).emits, Statement[2])
              THEN err' = CloneTwice /\ active' = active
              ELSE err' = "none" /\ Last(active').emits =
                                        Append(Last(active).emits, Statement[2])
       /\ Declares({"register", "feedee"}) =>
              IF Contains(Last(active).listens, Statement[2])
              THEN err' = RegisterTwice /\ active' = active
              ELSE err' = "none" /\ Last(active').listens =
                                        Append(Last(active).listens, Statement[2])
       /\ (err = "none" /\ err' = CloneTwice) => Declares({"clone", "feeder"})
       /\ (err = "none" /\ err' = RegisterTwice) =>
              Declares({"register", "feedee"})
       /\ \A i \in 1..Len(active') :
              /\ NoDuplicates(active'[i].emits)
              /\ NoDuplicates(active'[i].listens)]_vars

\* a subscription nested in one that listens to a slot has registered on
\* that slot once, and failed to do so a second time
C14_Witness ==
    /\ err = RegisterTwice
    /\ Len(active) = 2
    /\ Contains(active[1].listens, "a")
    /\ active[2].listens = <<"a">>

----------------------------------------------------------------------------
(* C15 *)

OutsideContext   == "signal modification outside of Anchor context"
DifferentManager == "manager is different"

Modifying == {"clone", "register", "feeder", "feedee"}

\* C15: a register, clone, feeder or feedee statement of a running subscribe
\* or unsubscribe fails with 'manager is different', changing nothing, when
\* its channel was created with another Manager than the one of the
\* innermost Anchor call, and with neither of the two errors otherwise; a
\* frame, the nodes a slot holds or a queue change only by such a statement
\* on a channel of the innermost call's Manager; 'manager is different' comes only from such
\* a statement on a channel of another Manager, the outside-of-context error
\* only while no Anchor call is running, and a call that fails then, other
\* than a constructor or an emit, fails with that error.
C15_ActiveManager ==
    [][/\ (Running /\ STACK # <<>> /\ Statement[1] \in Modifying) =>
              IF ManagerOf(Statement[2]) # Last(STACK).mng
              THEN /\ err' = DifferentManager
                   /\ <<mngVars, subVars, emitVars>>' =
                          <<mngVars, subVars, emitVars>>
              ELSE err' \notin {DifferentManager, OutsideContext}
       /\ (err = "none" /\ err' = DifferentManager) =>
              /\ STACK # <<>>
              /\ Statement[1] \in Modifying
              /\ ManagerOf(Statement[2]) # Last(STACK).mng
       /\ (err = "none" /\ err' = OutsideContext) => STACK = <<>>
       /\ (err = "none" /\ STACK = <<>>
           /\ err' \notin {"none", DuplicateName, "already borrowed",
                            "already mutably borrowed"}) =>
              err' = OutsideContext
       /\ ((Len(active') = Len(active) /\ active' # active)
           \/ (\E s \in DOMAIN slots : Range(slots'[s]) # Range(slots[s]))
           \/ queues' # queues) =>
              /\ STACK # <<>>
              /\ Statement[1] \in Modifying
              /\ ManagerOf(Statement[2]) = Last(STACK).mng]_vars

\* the item of a subscription was registered on a slot of another Manager
\* (tests::subscribing_with_different_manager)
C15_Witness ==
    /\ err = DifferentManager
    /\ Len(STACK) = 1
    /\ Top.item # 0
    /\ Statement = Register("z")

----------------------------------------------------------------------------
(* C16 *)

\* C16: the chain of a recursion panic has at least two entries, its first
\* and its last entry are the same channel, no channel occurs twice before
\* the last entry, and every entry and its successor are an edge of the
\* amalgam between Direct channels.
C16_ChainShape ==
    err = Recursion =>
        /\ Len(recChain) >= 2
        /\ recChain[1] = Last(recChain)
        /\ NoDuplicates(Pop(recChain))
        /\ \A i \in 1..(Len(recChain) - 1) :
               <<recChain[i], recChain[i + 1]>>
                   \in DirectEdges(amalgam, channel_types)

\* the traversal started at a, went on to b and c, and found b again
C16_Witness ==
    /\ err = Recursion
    /\ "a" \in DOMAIN amalgam
    /\ recChain = <<"b", "c", "b">>

----------------------------------------------------------------------------
(* C17 *)

RecEdge(x, y) == x \in DOMAIN mapping /\ Contains(mapping[x], y)

\* C17: the chain of an error returned by Recursion::check lists a cycle of
\* the mapping once around: it is not empty, names no signal twice, every
\* entry has its successor among its children and the last entry has the
\* first among its children.  Adding a -> b and b -> a gives the chain
\* [a, b], adding a -> a gives [a], and the ring of a, b, c, d, e gives
\* [a, b, c, d, e].
C17_ChainWithoutRepeat ==
    /\ checked.state = "Err" =>
           /\ Len(checked.chain) >= 1
           /\ NoDuplicates(checked.chain)
           /\ \A i \in 1..(Len(checked.chain) - 1) :
                  RecEdge(checked.chain[i], checked.chain[i + 1])
           /\ RecEdge(Last(checked.chain), checked.chain[1])
    /\ (checked.state # "none"
        /\ mapping = ("a" :> <<"b">>) @@ ("b" :> <<"a">>)) =>
           checked = [state |-> "Err", chain |-> <<"a", "b">>]
    /\ (checked.state # "none" /\ mapping = ("a" :> <<"a">>)) =>
           checked = [state |-> "Err", chain |-> <<"a">>]
    /\ (checked.state # "none"
        /\ mapping = ("a" :> <<"b">>) @@ ("b" :> <<"c">>) @@ ("c" :> <<"d">>)
                     @@ ("d" :> <<"e">>) @@ ("e" :> <<"a">>)) =>
           checked = [state |-> "Err", chain |-> <<"a", "b", "c", "d", "e">>]

\* the check of the ring of five has returned
C17_Witness ==
    /\ checked.state = "Err"
    /\ Len(checked.chain) = 5
    /\ \A k \in DOMAIN mapping : Len(mapping[k]) = 1

----------------------------------------------------------------------------
(* C18 *)

\* the kinds whose finish_construction has run
Recorded ==
    {nodes[n].name : n \in Finished}
    \cup (IF err = Recursion THEN {Top.name} ELSE {})

\* C18: the panic of a rejected subscription is the recursion message, not
\* an internal error of the printer, and it has one hop for every entry of
\* the chain but the last; the handlers named for the hop (from, to) are
\* exactly the kinds recorded so far whose register_listens registers on
\* `from`, or whose register_emits makes a feedee of it, and whose
\* register_emits clones `to`, and there is at least one of them.
C18_HopHandlers ==
    recChain # <<>> =>
        /\ err = Recursion
        /\ LET p == RecursionPrinter(recChain, listens, emits) IN
           /\ p.state = "Ok"
           /\ Len(p.hops) = Len(recChain) - 1
           /\ p.last = Last(recChain)
           /\ \A i \in 1..Len(p.hops) :
                  /\ p.hops[i].from = recChain[i]
                  /\ Range(p.hops[i].handlers) =
                         {h \in Recorded : /\ recChain[i] \in ListensOf(h)
                                           /\ recChain[i + 1] \in EmitsOf(h)}
                  /\ p.hops[i].handlers # <<>>

\* a hop of the reported chain is due to two handlers
C18_Witness ==
    /\ err = Recursion
    /\ \E i \in 1..(Len(recChain) - 1) :
           Len(Hop(recChain[i], recChain[i + 1], listens, emits).handlers) = 2

----------------------------------------------------------------------------
(* C19 *)

Pos(order, x) == CHOOSE i \in 1..Len(order) : order[i] = x

\* u comes before v in the lexicographic order of the channel names
LexLess(u, v) ==
    \E i \in 1..Len(u) :
        /\ i <= Len(v)
        /\ Pos(NameOrder, u[i]) < Pos(NameOrder, v[i])
        /\ \A j \in 1..(i - 1) : u[j] = v[j]

RECURSIVE WalksFrom(_, _)
\* the ways to go on from a path along the edges D until a channel of the
\* path comes up again
WalksFrom(path, D) ==
    UNION {IF Contains(path, e[2]) THEN {Append(path, e[2])}
           ELSE WalksFrom(Append(path, e[2]), D) :
           e \in {d \in D : d[1] = Last(path)}}

\* the paths along the edges D that end when a channel comes up again
ClosedWalks(D) == UNION {WalksFrom(<<k>>, D) : k \in ChannelNames}

\* C19: the reported chain is fixed by the amalgam and the channel types
\* alone: it is the part, from the repeated channel on, of the first path in
\* the lexicographic order of the channel names that runs along Direct
\* edges until a channel comes up again; and the handlers of every hop are
\* listed in the order of their names.  The order of the subscriptions that
\* recorded the state plays no part.
C19_SortedTraversal ==
    err = Recursion =>
        /\ LET W == ClosedWalks(DirectEdges(amalgam, channel_types))
               first == CHOOSE w \in W : \A v \in W : v = w \/ LexLess(w, v)
               at == CHOOSE i \in 1..Len(first) :
                         /\ first[i] = Last(first)
                         /\ \A j \in 1..(i - 1) : first[j] # Last(first)
           IN recChain = SubSeq(first, at, Len(first))
        /\ LET p == RecursionPrinter(recChain, listens, emits) IN
           \A k \in 1..Len(p.hops) :
               \A i, j \in 1..Len(p.hops[k].handlers) :
                   i < j => Pos(HandlerOrder, p.hops[k].handlers[i])
                                < Pos(HandlerOrder, p.hops[k].handlers[j])

\* the edge c -> a was recorded before b -> a, and the chain through b is
\* the one reported
C19_Witness ==
    /\ err = Recursion
    /\ Len(nodes) = 3
    /\ nodes[1].name = "W" /\ nodes[2].name = "Y" /\ nodes[3].name = "T"
    /\ recChain = <<"a", "b", "a">>

----------------------------------------------------------------------------
(* C20 *)

\* C20: the finish_construction of a subscription is accepted, and the
\* subscribe returns, whenever the amalgam with the new edges has no cycle
\* made of Direct channels only, however many cycles it has through a Feed
\* channel.
C20_FeedCyclesAccepted ==
    [][(IsSubscribeEnd /\ Acyclic(DirectEdges(amalgam', channel_types')))
       => /\ err' = "none"
          /\ STACK' = Pop(STACK)]_vars

\* a feeder and feedee of one feed, and a slot and the feed that reach each
\* other, have all been accepted (tests::recur_via_feed)
C20_Witness ==
    /\ Running
    /\ STACK = <<>>
    /\ {<<"q", "q">>, <<"c", "q">>, <<"q", "c">>} \subseteq Edges(amalgam)

----------------------------------------------------------------------------
(* C21 *)

Others(subs, item) == SelectSeq(subs, LAMBDA x : x # item)

\* C21: a step of an unsubscribe that changes the slots takes the node of
\* the call out of one slot and leaves the other nodes of every slot as they
\* were, in the same order; when the unsubscribe returns the node is in no
\* slot, so no emit calls it; an emit on a slot without nodes calls nothing;
\* and the nodes of a slot are all nodes that were created.
C21_UnsubscribeRemoves ==
    [][/\ (STACK # <<>> /\ Last(STACK).mode = "Removing" /\ slots' # slots) =>
              /\ \A s \in DOMAIN slots :
                     Others(slots'[s], Top.item) = Others(slots[s], Top.item)
              /\ \E s \in SlotNames :
                     /\ Contains(slots[s], Top.item)
                     /\ ~Contains(slots'[s], Top.item)
                     /\ \A t \in DOMAIN slots \ {s} : slots'[t] = slots[t]
       /\ (STACK # <<>> /\ Last(STACK).mode = "Removing"
           /\ Len(STACK') < Len(STACK)) =>
              \A s \in DOMAIN slots : ~Contains(slots'[s], Top.item)
       /\ \A s \in DOMAIN slots :
              /\ Range(slots'[s]) \subseteq 1..Len(nodes')
              /\ (slots[s] = <<>> /\ emitStack' # emitStack
                  /\ Len(emitStack') > Len(emitStack)) =>
                     Last(emitStack').slot # s]_vars

\* the first of three nodes of a slot has been unsubscribed and the slot is
\* emitted on
C21_Witness ==
    /\ Running
    /\ STACK = <<>>
    /\ Len(nodes) = 3
    /\ nodes[1].name = "X"
    /\ slots["a"] = <<2, 3>>
    /\ emitStack # <<>>
    /\ emitStack[1].slot = "a"

----------------------------------------------------------------------------
(* C22 *)

Nonexistent == "unable to deregister nonexistent item"

Removing(stack) == stack # <<>> /\ Last(stack).mode = "Removing"

\* C22: a register statement of an unsubscribe fails with the
\* nonexistent-item error, changing no slot and nothing of the Manager and
\* still holding the slot's nodes borrowed when it panics, exactly when the
\* node of the call is not in the slot, and no other call fails with it; the
\* start of an unsubscribe changes nothing but the call stack, and the
\* unsubscribe of a node whose register_listens has no statement returns
\* without any other change.
C22_DeregisterNonexistent ==
    [][/\ (Running /\ Removing(STACK) /\ Statement[1] = "register") =>
              IF Contains(slots[Statement[2]], Top.item)
              THEN err' = "none"
              ELSE /\ err' = Nonexistent
                   /\ <<mngVars, subVars, emitStack, borrowedNodes>>' =
                          <<mngVars, subVars, emitStack, borrowedNodes>>
                   /\ borrowedSlots' = borrowedSlots \cup {Statement[2]}
       /\ (err = "none" /\ err' = Nonexistent) =>
              /\ Removing(STACK)
              /\ Statement[1] = "register"
              /\ ~Contains(slots[Statement[2]], Top.item)
       /\ ((Removing(STACK') /\ Len(STACK') > Len(STACK))
           \/ (Removing(STACK) /\ Len(STACK') < Len(STACK))) =>
              /\ err' = "none"
              /\ <<mngVars, slots, queues, nodes, emitVars>>' =
                     <<mngVars, slots, queues, nodes, emitVars>>]_vars

\* the only node, which registers on a slot, was unsubscribed, and its
\* second unsubscribe has failed (tests::double_unsubscribe)
C22_Witness ==
    /\ err = Nonexistent
    /\ Len(nodes) = 1
    /\ Len(STACK) = 1
    /\ nodes[1].name = "X"
    /\ Top.item = 1

----------------------------------------------------------------------------
(* C23 *)

\* the nodes are in the order of one of the comparators
Ordered(v) ==
    \E cmp \in Comparators :
        \A i, j \in 1..Len(v) : i < j => Less(cmp, v[i], v[j])

\* C23: a register statement of a subscribe that succeeds puts the node of
\* the call behind the nodes the slot has, and no step but that one and a
\* Slot::sort_by adds a node to a slot or changes the order of its nodes: a
\* sort_by, made while no Anchor call runs or by a handler, leaves the slot
\* its nodes and puts them in the order of its comparator.  The nodes of a
\* slot are therefore in the order of their registrations as long as no
\* sort_by rearranged them; the node an emit calls next is the one behind
\* the node it called last.  The node registered first by a nested
\* subscribe is called before the node whose register_listens made that
\* subscribe.
C23_OrderUnlessSorted ==
    [][/\ \A s \in DOMAIN slots :
              \/ slots'[s] = slots[s]
              \/ /\ Adding(STACK)
                 /\ Statement = Register(s)
                 /\ slots'[s] = Append(slots[s], Top.item)
              \/ /\ Removing(STACK)
                 /\ Statement = Register(s)
                 /\ slots'[s] = Others(slots[s], Top.item)
              \/ /\ STACK = <<>> \/ emitStack # <<>>
                 /\ Range(slots'[s]) = Range(slots[s])
                 /\ Len(slots'[s]) = Len(slots[s])
                 /\ Ordered(slots'[s])
                 /\ \A t \in DOMAIN slots \ {s} : slots'[t] = slots[t]
                 /\ emitStack' = emitStack
       /\ (Running /\ Adding(STACK) /\ Statement[1] = "register"
           /\ err' = "none") =>
              slots'[Statement[2]] = Append(slots[Statement[2]], Top.item)
       /\ (emitStack' # <<>> /\ emitStack' # emitStack) =>
              \/ Len(emitStack') < Len(emitStack)
              \/ /\ Len(emitStack') > Len(emitStack)
                 /\ Last(emitStack').idx = 1
              \/ /\ Len(emitStack') = Len(emitStack)
                 /\ Last(emitStack').idx = Last(emitStack).idx + 1]_vars

\* the parent of a nested subscription, registered behind its child, was
\* put in front of it by a sort_by, and the emit on their slot calls it first
C23_SortedWitness ==
    /\ Running
    /\ Len(nodes) = 2
    /\ nodes[1].name = "P" /\ nodes[2].name = "L"
    /\ slots["a"] = <<1, 2>>
    /\ emitStack = <<[slot |-> "a", idx |-> 1]>>
    /\ borrowedNodes = {1}

\* C23 as stated: a register statement of a subscribe that succeeds puts the
\* node of the call behind the nodes the slot has, and no other step adds a
\* node to a slot or changes the order of its nodes, so the nodes of a slot
\* are in the order of their registrations; the node an emit calls next is
\* the one behind the node it called last.
C23_RegistrationOrder ==
    [][/\ \A s \in DOMAIN slots :
              \/ slots'[s] = slots[s]
              \/ /\ Adding(STACK)
                 /\ Statement = Register(s)
                 /\ slots'[s] = Append(slots[s], Top.item)
              \/ /\ Removing(STACK)
                 /\ Statement = Register(s)
                 /\ slots'[s] = Others(slots[s], Top.item)
       /\ (Running /\ Adding(STACK) /\ Statement[1] = "register"
           /\ err' = "none") =>
              slots'[Statement[2]] = Append(slots[Statement[2]], Top.item)
       /\ (emitStack' # <<>> /\ emitStack' # emitStack) =>
              \/ Len(emitStack') < Len(emitStack)
              \/ /\ Len(emitStack') > Len(emitStack)
                 /\ Last(emitStack').idx = 1
              \/ /\ Len(emitStack') = Len(emitStack)
                 /\ Last(emitStack').idx = Last(emitStack).idx + 1]_vars

----------------------------------------------------------------------------
(* Signal: src/src/signal.rs.  A Signal is subscribed to by the register
   function of a subscriber, which Anchor::subscribe calls
   (src/src/traits.rs); Manager::register_subscribe is taken to be the
   register_listen of src/src/mng.rs *)

TheSignal == "a"
SignalKinds == {"L", "P", "S", "X"}

\* faulty variant: a kept subscriber is put in front of the ones kept before
RECURSIVE drain_filter_reversing(_, _, _, _, _)
drain_filter_reversing(v, answers, idx, kept, trace) ==
    IF idx > Len(v) THEN [kept |-> kept, applied |-> trace]
    ELSE drain_filter_reversing(v, answers, idx + 1,
             IF answers[idx] THEN kept ELSE <<v[idx]>> \o kept,
             Append(trace, [item |-> v[idx], result |-> answers[idx]]))

\* Vec::drain_filter whose DrainFilter is dropped at once: the drop runs the
\* iterator to its end, so the closure is called on the elements from idx
\* on, front to back, and the elements it answers true for are taken out;
\* answers[i] is what the closure returns on its i-th call
RECURSIVE drain_filter(_, _, _, _, _)
drain_filter(v, answers, idx, kept, trace) ==
    IF idx > Len(v) THEN [kept |-> kept, applied |-> trace]
    ELSE drain_filter(v, answers, idx + 1,
             IF answers[idx] THEN kept ELSE Append(kept, v[idx]),
             Append(trace, [item |-> v[idx], result |-> answers[idx]]))

\* Signal::internal_clone: register_emit, with no look at the Anchor call
\* in progress
SignalClone(signal) ==
    /\ Running
    /\ InOps
    /\ Kinds[Top.name].ops[Top.pc] = Clone(signal)
    /\ IF ~register_emit_ok(active, signal)
       THEN Panic("not allowed to clone more than once per subscription")
       ELSE /\ active' = register_emit(active, signal)
            /\ calls' = Advance(calls)
            /\ UNCHANGED <<channel_types, amalgam, emits, listens, STACK,
                           slots, queues, nodes, emitVars, err, recChain,
                           nodeVars, recVars, mailVars, contVars>>

\* Signal::insert, called by register with the item of the call
SignalInsert(signal) ==
    /\ Running
    /\ InRegs
    /\ Last(STACK).mode = "Adding"
    /\ Kinds[Top.name].regs[Top.pc] = Register(signal)
    /\ IF ~register_listen_ok(active, signal)
       THEN Panic("not allowed to register more than once per subscription")
       ELSE /\ active' = register_listen(active, signal)
            /\ slots' = [slots EXCEPT ![signal] = Append(@, Top.item)]
            /\ calls' = Advance(calls)
            /\ UNCHANGED <<channel_types, amalgam, emits, listens, STACK,
                           queues, nodes, emitVars, err, recChain,
                           nodeVars, recVars, mailVars, contVars>>

\* Signal::remove, called by the owner of the hub with a predicate
SignalRemove(signal) ==
    /\ Running
    /\ STACK = <<>>
    /\ emitStack = <<>>
    /\ \E answers \in [1..Len(slots[signal]) -> BOOLEAN] :
           LET r == drain_filter(slots[signal], answers, 1, <<>>, <<>>)
           IN /\ slots' = [slots EXCEPT ![signal] = r.kept]
              /\ applied' = r.applied
    /\ UNCHANGED <<mngVars, STACK, calls, queues, nodes, emitVars, err,
                   recChain, nodeVars, recVars, mailVars, feedees, returned>>

\* Signal::sort_by, called by the owner of the hub: subscribers.borrow_mut(),
\* then Vec::sort_by with a comparator that borrows the two subscribers
SignalSortBy(signal, cmp) ==
    /\ Running
    /\ STACK = <<>>
    /\ emitStack = <<>>
    /\ SortBy(signal, cmp)

\* Signal::emit, called by the owner of the hub: the loop of Slot::emit
SignalEmit(signal) ==
    /\ Running
    /\ STACK = <<>>
    /\ emitStack = <<>>
    /\ EnterEmit(signal)

NextSignal ==
    \/ \E name \in SignalKinds : SubscribeBegin(name)
    \/ \E signal \in {"a", "b"} : SignalClone(signal)
    \/ CreateItem
    \/ SignalInsert(TheSignal)
    \/ SubscribeEnd
    \/ SignalRemove(TheSignal)
    \/ \E cmp \in Comparators : SignalSortBy(TheSignal, cmp)
    \/ SignalEmit(TheSignal)
    \/ HandlerReturn

SpecSignal == Init /\ [][NextSignal]_vars

----------------------------------------------------------------------------
(* Single: src/src/single.rs.  A Single is registered on by the register
   function of a subscriber, which Anchor::subscribe and Anchor::unsubscribe
   call (src/src/traits.rs); Manager::register_subscribe is taken to be the
   register_listen of src/src/mng.rs *)

TheSingle == "a"
SingleKinds == {"L", "P", "S", "X", "O", "K"}

\* what the closure given to Single::emit may return
Results == {0, 1}

\* <Single as Clone>::clone: assert_active_manager, then register_emit
SingleClone(single) ==
    /\ Running
    /\ InOps
    /\ Kinds[Top.name].ops[Top.pc] = Clone(single)
    /\ IF assert_active_manager(STACK, ManagerOf(single)) # "none"
       THEN Panic(assert_active_manager(STACK, ManagerOf(single)))
       ELSE IF ~register_emit_ok(active, single)
       THEN Panic("not allowed to clone more than once per subscription")
       ELSE /\ active' = register_emit(active, single)
            /\ calls' = Advance(calls)
            /\ UNCHANGED <<channel_types, amalgam, emits, listens, STACK,
                           slots, queues, nodes, emitVars, err, recChain,
                           nodeVars, recVars, mailVars, contVars>>

\* faulty variant: a Single takes every item it is given
SingleRegister_appending(single) ==
    /\ Running
    /\ InRegs
    /\ Kinds[Top.name].regs[Top.pc] = Register(single)
    /\ IF assert_active_manager(STACK, ManagerOf(single)) # "none"
       THEN Panic(assert_active_manager(STACK, ManagerOf(single)))
       ELSE IF Last(STACK).mode = "Adding"
       THEN IF ~register_listen_ok(active, single)
            THEN Panic("not allowed to register more than once per subscription")
            ELSE /\ active' = register_listen(active, single)
                 \* the item is pushed and nothing is asserted
                 /\ slots' = [slots EXCEPT ![single] = Append(@, Top.item)]
                 /\ calls' = Advance(calls)
                 /\ err' = err
                 /\ UNCHANGED <<channel_types, amalgam, emits, listens,
                                STACK, queues, nodes, emitVars, recChain,
                                nodeVars, recVars, mailVars, contVars>>
       ELSE \* replace(&mut *subscriber, None), then the assert
            /\ slots' = [slots EXCEPT ![single] = <<>>]
            /\ IF slots[single] # <<>>
               THEN /\ calls' = Advance(calls)
                    /\ err' = err
               ELSE /\ calls' = calls
                    /\ err' = "unable to deregister nonexistent item"
            /\ UNCHANGED <<mngVars, STACK, queues, nodes, emitVars,
                           recChain, nodeVars, recVars, mailVars, contVars>>

\* Single::register, called by register with the item of the call
SingleRegister(single) ==
    /\ Running
    /\ InRegs
    /\ Kinds[Top.name].regs[Top.pc] = Register(single)
    /\ IF assert_active_manager(STACK, ManagerOf(single)) # "none"
       THEN Panic(assert_active_manager(STACK, ManagerOf(single)))
       ELSE IF Last(STACK).mode = "Adding"
       THEN IF ~register_listen_ok(active, single)
            THEN Panic("not allowed to register more than once per subscription")
            ELSE /\ active' = register_listen(active, single)
                 \* replace(&mut *subscriber, Some(item)), then the assert
                 /\ slots' = [slots EXCEPT ![single] = <<Top.item>>]
                 /\ IF slots[single] = <<>>
                    THEN /\ calls' = Advance(calls)
                         /\ err' = err
                    ELSE /\ calls' = calls
                         /\ err' = "unable to register multiple items simultaneously"
                 /\ UNCHANGED <<channel_types, amalgam, emits, listens,
                                STACK, queues, nodes, emitVars, recChain,
                                nodeVars, recVars, mailVars, contVars>>
       ELSE \* replace(&mut *subscriber, None), then the assert
            /\ slots' = [slots EXCEPT ![single] = <<>>]
            /\ IF slots[single] # <<>>
               THEN /\ calls' = Advance(calls)
                    /\ err' = err
               ELSE /\ calls' = calls
                    /\ err' = "unable to deregister nonexistent item"
            /\ UNCHANGED <<mngVars, STACK, queues, nodes, emitVars,
                           recChain, nodeVars, recVars, mailVars, contVars>>

\* faulty variant: an emit on an empty Single returns without a call
SingleEmit_silent(single) ==
    /\ Running
    /\ STACK = <<>>
    /\ emitStack = <<>>
    /\ lastCall' = [name |-> "Single::emit", target |-> single,
                    prev |-> "none"]
    /\ IF slots[single] # <<>>
       THEN \E r \in Results :
                /\ applied' = <<[item |-> slots[single][1], result |-> r]>>
                /\ returned' = [call |-> "Single::emit",
                                of |-> slots[single][1], value |-> <<r>>]
                /\ err' = err
                /\ UNCHANGED emitVars
       ELSE /\ err' = err
            /\ UNCHANGED <<applied, returned, emitVars>>
    /\ UNCHANGED <<mngVars, subVars, recChain, flag, NODE_STACK,
                   items, frames, recVars, mailVars, feedees>>

\* Single::emit, called by the owner of the hub; the closure is called with
\* the subscriber and what it returns is returned, the borrow of subscriber
\* ending with the call; on an empty Single the call panics inside the borrow
SingleEmit(single) ==
    /\ Running
    /\ STACK = <<>>
    /\ emitStack = <<>>
    /\ lastCall' = [name |-> "Single::emit", target |-> single,
                    prev |-> "none"]
    /\ IF slots[single] # <<>>
       THEN \E r \in Results :
                /\ applied' = <<[item |-> slots[single][1], result |-> r]>>
                /\ returned' = [call |-> "Single::emit",
                                of |-> slots[single][1], value |-> <<r>>]
                /\ err' = err
                /\ UNCHANGED emitVars
       ELSE \* the panic, raised while the RefMut of subscriber is alive
            /\ err' = "no subscriber"
            /\ borrowedSlots' = borrowedSlots \cup {single}
            /\ UNCHANGED <<applied, returned, emitStack, borrowedNodes>>
    /\ UNCHANGED <<mngVars, subVars, recChain, flag, NODE_STACK,
                   items, frames, recVars, mailVars, feedees>>

NextSingle ==
    \/ \E name \in SingleKinds : SubscribeBegin(name)
    \/ \E single \in {"a", "b"} \cup ForeignSlots : SingleClone(single)
    \/ CreateItem
    \/ \E single \in {TheSingle} \cup ForeignSlots : SingleRegister(single)
    \/ SubscribeEnd
    \/ \E item \in 1..MaxNodes : UnsubscribeBegin(item)
    \/ UnsubscribeEnd
    \/ SingleEmit(TheSingle)
    \/ OutsideCall(TheSingle)

SpecSingle == Init /\ [][NextSingle]_vars

----------------------------------------------------------------------------
(* Feed, Feeder, Feedee: src/src/feed.rs *)

TheFeed == "q"
FeedKinds == {"F", "G", "R", "FeederNode", "FeedeeNode"}

\* the max_size given to Feed::new
max_size == 2

\* the items fed
FeedItems == {0, 1}

QueueFull == "feedee queue exceeds maximum size"

\* faulty variant: the item goes to the last queue only
RECURSIVE feed_last_only(_, _, _, _)
feed_last_only(qs, fs, item, i) ==
    IF i > Len(qs) THEN [feedees |-> fs, err |-> "none"]
    ELSE IF i < Len(qs) THEN feed_last_only(qs, fs, item, i + 1)
    ELSE IF Len(fs[qs[i].items].items) = max_size
    THEN [feedees |-> fs, err |-> QueueFull]
    ELSE feed_last_only(qs, [fs EXCEPT ![qs[i].items].items = Append(@, item)],
                        item, i + 1)

\* faulty variant: the length of a queue is not looked at
RECURSIVE feed_unchecked(_, _, _, _)
feed_unchecked(qs, fs, item, i) ==
    IF i > Len(qs) THEN [feedees |-> fs, err |-> "none"]
    ELSE feed_unchecked(qs,
                        [fs EXCEPT ![qs[i].items].items = Append(@, item)],
                        item, i + 1)

\* Feeder::feed from queue i of the Vec qs on: a clone of the item is pushed
\* at the back of each queue in turn, the item itself on the last one; the
\* first queue found full ends the call with a panic
RECURSIVE feed(_, _, _, _)
feed(qs, fs, item, i) ==
    IF i > Len(qs) THEN [feedees |-> fs, err |-> "none"]
    ELSE IF Len(fs[qs[i].items].items) = max_size
    THEN [feedees |-> fs, err |-> QueueFull]
    ELSE feed(qs, [fs EXCEPT ![qs[i].items].items = Append(@, item)],
              item, i + 1)

\* the kinds whose emitter is the Feeder their register_emits made (feed.rs,
\* module doc, node B; tests::feed_size_checks, FeederNode); the Feeder of
\* another kind is gone when its register_emits returns
FeederHolders == {"F"}

\* a subscriber that holds a Feeder of the feed exists
HasFeeder(f) ==
    \E n \in 1..Len(nodes) :
        /\ nodes[n].name \in FeederHolders
        /\ \E k \in 1..Len(Kinds[nodes[n].name].ops) :
               Kinds[nodes[n].name].ops[k] = Feeder(f)

\* the create closure of the innermost subscribe is running and has been
\* handed the Feedee (tests::one_feeder_to_many_feedees_disable_enable,
\* FeedeeNode::new)
InCreate(id) ==
    /\ STACK # <<>>
    /\ Last(STACK).mode = "Adding"
    /\ Top.item = 0
    /\ Top.pc > Len(Kinds[Top.name].ops)
    /\ Top.name = "FeedeeNode"
    /\ id = Len(feedees)

\* the handler of a subscriber that holds a Feeder of the feed is running
\* (feed.rs, module doc, B::basic)
InHandlerWithFeeder(f) ==
    /\ emitStack # <<>>
    /\ nodes[RunningNode].name \in FeederHolders
    /\ Feeder(f) \in Range(Kinds[nodes[RunningNode].name].ops)

\* Feeder::feed, called on the Feeder a subscriber holds, by the owner or by
\* the handler of the subscriber, or by a register_emits on the Feeder it
\* has just made
FeederFeed(f, item) ==
    /\ Running
    /\ LET r == feed(queues[f], feedees, item, 1)
       IN /\ \/ /\ AtOwner
                /\ HasFeeder(f)
                /\ calls' = calls
             \/ /\ InHandlerWithFeeder(f)
                /\ calls' = calls
             \/ /\ InOps
                /\ Kinds[Top.name].ops[Top.pc] = Feed(f, item)
                /\ calls' = IF r.err = "none" THEN Advance(calls) ELSE calls
          /\ feedees' = r.feedees
          /\ err' = r.err
    /\ UNCHANGED <<mngVars, STACK, slots, queues, nodes, emitVars, recChain,
                   nodeVars, recVars, mailVars, applied, returned>>

\* Feedee::pop, called on the Feedee a subscriber holds, by the owner or by
\* the handler of the subscriber (feed.rs, module doc, A::basic)
FeedeePop(id) ==
    /\ Running
    /\ Live(id)
    /\ AtOwner \/ InHandlerOf(id)
    /\ IF feedees[id].items = <<>>
       THEN /\ returned' = [call |-> "Feedee::pop", of |-> id,
                            value |-> <<>>]
            /\ feedees' = feedees
       ELSE /\ returned' = [call |-> "Feedee::pop", of |-> id,
                            value |-> <<Head(feedees[id].items)>>]
            /\ feedees' = [feedees EXCEPT ![id].items = Tail(@)]
    /\ UNCHANGED <<mngVars, subVars, emitVars, recChain, nodeVars, recVars, mailVars,
                   applied, err>>

\* faulty variant: the queue is pushed without the retain
FeedeeEnable_pushing(id) ==
    /\ Running
    /\ Live(id)
    /\ AtOwner \/ InHandlerOf(id)
    /\ LET f == feedees[id].feed
           qs == Append(queues[f],
                        [name |-> feedees[id].name, items |-> id])
       IN /\ queues' = [queues EXCEPT ![f] = qs]
          /\ returned' = [call |-> "Feedee::enable", of |-> id,
                          value |-> <<Len(queues[f]) # Len(qs)>>]
    /\ UNCHANGED <<mngVars, STACK, calls, slots, nodes, emitVars, recChain,
                   nodeVars, recVars, mailVars, feedees, applied, err>>

\* Feedee::enable
FeedeeEnable(id) ==
    /\ Running
    /\ Live(id)
    /\ AtOwner \/ InHandlerOf(id)
    /\ LET f == feedees[id].feed
           qs == Append(Disabled(queues[f], id),
                        [name |-> feedees[id].name, items |-> id])
       IN /\ queues' = [queues EXCEPT ![f] = qs]
          /\ returned' = [call |-> "Feedee::enable", of |-> id,
                          value |-> <<Len(queues[f]) # Len(qs)>>]
    /\ UNCHANGED <<mngVars, STACK, calls, slots, nodes, emitVars, recChain,
                   nodeVars, recVars, mailVars, feedees, applied, err>>

\* Feedee::disable, called by the subscriber that holds the Feedee, or by
\* the create closure of its subscribe
FeedeeDisable(id) ==
    /\ Running
    /\ Live(id)
    /\ AtOwner \/ InHandlerOf(id) \/ InCreate(id)
    /\ LET f == feedees[id].feed
           qs == Disabled(queues[f], id)
       IN /\ queues' = [queues EXCEPT ![f] = qs]
          /\ returned' = [call |-> "Feedee::disable", of |-> id,
                          value |-> <<Len(queues[f]) # Len(qs)>>]
    /\ UNCHANGED <<mngVars, STACK, calls, slots, nodes, emitVars, recChain,
                   nodeVars, recVars, mailVars, feedees, applied, err>>

NextFeed ==
    \/ \E name \in FeedKinds :
           /\ TheFeed \in ListensOf(name) => Len(feedees) < MaxFeedees
           /\ SubscribeBegin(name)
    \/ FeedFeeder(TheFeed)
    \/ FeedFeedee(TheFeed)
    \/ CreateItem
    \/ SlotClone("c")
    \/ \E slot \in {"a", "c"} : SlotRegister(slot)
    \/ SubscribeEnd
    \/ \E slot \in {"a", "c"} : SlotEmit(slot)
    \/ HandlerEmit("c")
    \/ HandlerReturn
    \/ \E item \in FeedItems : FeederFeed(TheFeed, item)
    \/ \E id \in 1..MaxFeedees : FeedeePop(id)
    \/ \E id \in 1..MaxFeedees : FeedeeEnable(id)
    \/ \E id \in 1..MaxFeedees : FeedeeDisable(id)
    \/ \E id \in 1..MaxFeedees : FeedeeDrop(id)

SpecFeed == Init /\ [][NextFeed]_vars

----------------------------------------------------------------------------
(* C24 *)

\* the step is a turn of the loop of Channel::emit that calls a node
Visiting ==
    /\ frames # <<>>
    /\ Last(frames).kind = "channel"
    /\ Len(frames') = Len(frames) + 1

\* C24: an insert puts the new entry behind every entry of a smaller
\* relative position and in front of every entry of a larger one; entries
\* of the same position are in front of it when the position is not
\* negative and behind it when it is; the entries the channel had keep
\* their order.  Every turn of the loop of emit calls the node of the entry
\* behind the one called last, so emit visits equal non-negative positions
\* in insertion order, equal negative ones in reverse insertion order, and
\* smaller positions first.
C24_InsertionOrder ==
    [][/\ \A ch \in ChannelIds :
              Len(items'[ch]) = Len(items[ch]) + 1 =>
                  \E p \in 1..Len(items'[ch]) :
                      LET new == items'[ch]
                          e   == new[p]
                      IN /\ items[ch] = [i \in 1..Len(items[ch]) |->
                                            IF i < p THEN new[i]
                                            ELSE new[i + 1]]
                         /\ \A i \in 1..(p - 1) :
                                \/ new[i].rel < e.rel
                                \/ new[i].rel = e.rel /\ e.rel >= 0
                         /\ \A i \in (p + 1)..Len(new) :
                                \/ new[i].rel > e.rel
                                \/ new[i].rel = e.rel /\ e.rel < 0
       /\ Visiting =>
              LET f == Last(frames)
              IN /\ frames'[Len(frames)].idx = f.idx + 1
                 /\ Last(frames').kind = "emit"
                 /\ Last(frames').id = items[f.id][f.idx + 1].node]_vars

\* node 1 then node 2 were inserted at -1 and at 0, and the emit on the
\* channel has called node 2 at -1 and is in the handler of node 1 at -1
C24_Witness ==
    /\ items[TheChannel] = <<[rel |-> -1, node |-> 2],
                             [rel |-> -1, node |-> 1],
                             [rel |-> 0, node |-> 1],
                             [rel |-> 0, node |-> 2]>>
    /\ Len(frames) = 2
    /\ frames[1].kind = "channel" /\ frames[1].idx = 2
    /\ frames[2].kind = "emit" /\ frames[2].id = 1
    /\ err = "none"

----------------------------------------------------------------------------
(* C25 *)

\* the entries of a channel that are not of the node, in their order
Without(s, node) == SelectSeq(s, LAMBDA x : x.node # node)

\* C25: a step that takes entries out of a channel takes out every entry of
\* one node, whatever their relative positions, and leaves the other
\* entries in their order; an emit calls only nodes that have an entry in
\* the channel, so it never calls a node that was removed.
C25_RemoveAllOccurrences ==
    [][/\ \A ch \in ChannelIds :
              (items'[ch] # items[ch] /\ Len(items'[ch]) <= Len(items[ch]))
                  => \E n \in Cells :
                         /\ \E i \in 1..Len(items[ch]) :
                                items[ch][i].node = n
                         /\ items'[ch] = Without(items[ch], n)
       /\ Visiting =>
              \E i \in 1..Len(items'[Last(frames).id]) :
                  items'[Last(frames).id][i].node = Last(frames').id]_vars

\* node 1 is in the channel at the positions -1, 0 and 1 with node 2
\* between its entries, the state from which remove(node 1) leaves node 2
\* alone (tests::haystack)
C25_Witness ==
    /\ items[TheChannel] = <<[rel |-> -1, node |-> 1],
                             [rel |-> 0, node |-> 1],
                             [rel |-> 0, node |-> 2],
                             [rel |-> 1, node |-> 1]>>
    /\ frames = <<>>
    /\ err = "none"
    /\ ENABLED ChannelRemove(TheChannel, 1)

----------------------------------------------------------------------------
(* C26 *)

\* the survivors of a call of the predicate on each subscriber: the
\* subscribers it answered false for, in their order
Survivors(subs, trace) ==
    SelectSeq(subs, LAMBDA x : \E i \in 1..Len(trace) :
                                   trace[i].item = x /\ ~trace[i].result)

\* C26: a step that takes subscribers out of a signal or calls the
\* predicate has called it once on every subscriber, front to back, which
\* is the order of emit; the signal is left with the subscribers it
\* answered false for, in their order.  A step that adds a subscriber puts
\* it behind the ones the signal has, an emit calls the subscribers front
\* to back, and the one other step that changes their order is a
\* Signal::sort_by, which puts them in the order of its comparator: a node
\* subscribed after a remove is visited after the survivors as long as no
\* sort_by rearranged them.
C26_RemoveUnlessSorted ==
    [][/\ (applied' # applied
           \/ Len(slots'[TheSignal]) < Len(slots[TheSignal])) =>
              /\ Len(applied') = Len(slots[TheSignal])
              /\ \A i \in 1..Len(applied') :
                     applied'[i].item = slots[TheSignal][i]
              /\ slots'[TheSignal] = Survivors(slots[TheSignal], applied')
       /\ Len(slots'[TheSignal]) > Len(slots[TheSignal]) =>
              /\ slots'[TheSignal] = Append(slots[TheSignal], Top.item)
              /\ applied' = applied
       /\ Len(slots'[TheSignal]) = Len(slots[TheSignal]) =>
              \/ slots'[TheSignal] = slots[TheSignal]
              \/ /\ STACK = <<>>
                 /\ emitStack = <<>>
                 /\ Range(slots'[TheSignal]) = Range(slots[TheSignal])
                 /\ Ordered(slots'[TheSignal])
                 /\ applied' = applied
       /\ (emitStack' # <<>> /\ emitStack' # emitStack) =>
              \/ Len(emitStack') < Len(emitStack)
              \/ /\ Len(emitStack') > Len(emitStack)
                 /\ Last(emitStack').idx = 1
              \/ /\ Len(emitStack') = Len(emitStack)
                 /\ Last(emitStack').idx = Last(emitStack).idx + 1]_vars

\* the predicate was called on nodes 1 and 2 and answered true for node 1
\* only; node 3 was subscribed afterwards, a sort_by has put it in front of
\* the survivor, node 2, and the emit calls it first
C26_SortedWitness ==
    /\ Running
    /\ applied = <<[item |-> 1, result |-> TRUE],
                   [item |-> 2, result |-> FALSE]>>
    /\ slots[TheSignal] = <<3, 2>>
    /\ emitStack = <<[slot |-> TheSignal, idx |-> 1]>>
    /\ borrowedNodes = {3}

\* C26 as stated: a step that takes subscribers out of a signal or calls
\* the predicate has called it once on every subscriber, front to back; the
\* signal is left with the subscribers it answered false for, in their
\* order.  A step that adds a subscriber puts it behind the ones the signal
\* has and no other step changes their order, so a node subscribed after a
\* remove is visited after the survivors.
C26_RemoveByPredicate ==
    [][/\ (applied' # applied
           \/ Len(slots'[TheSignal]) < Len(slots[TheSignal])) =>
              /\ Len(applied') = Len(slots[TheSignal])
              /\ \A i \in 1..Len(applied') :
                     applied'[i].item = slots[TheSignal][i]
              /\ slots'[TheSignal] = Survivors(slots[TheSignal], applied')
       /\ Len(slots'[TheSignal]) > Len(slots[TheSignal]) =>
              /\ slots'[TheSignal] = Append(slots[TheSignal], Top.item)
              /\ applied' = applied
       /\ Len(slots'[TheSignal]) = Len(slots[TheSignal]) =>
              slots'[TheSignal] = slots[TheSignal]
       /\ (emitStack' # <<>> /\ emitStack' # emitStack) =>
              \/ Len(emitStack') < Len(emitStack)
              \/ /\ Len(emitStack') > Len(emitStack)
                 /\ Last(emitStack').idx = 1
              \/ /\ Len(emitStack') = Len(emitStack)
                 /\ Last(emitStack').idx = Last(emitStack).idx + 1]_vars

----------------------------------------------------------------------------
(* C27 *)

NoSubscriber == "no subscriber"

\* the step is a call of Single::emit: a call made outside subscribe and
\* unsubscribe that is not the start of one and not a clone or register
\* refused for want of an Anchor call
EmitsOnSingle ==
    /\ STACK = <<>>
    /\ STACK' = <<>>
    /\ lastCall'.name = "Single::emit"
    /\ err' # "signal modification outside of Anchor context"

\* C27: a call of emit on a Single without a subscriber fails with the
\* no-subscriber error and calls nothing, the Single being borrowed at the
\* failure; a call on a Single with a subscriber fails with nothing, calls
\* the closure once, with that subscriber, returns what the closure
\* returned and leaves no borrow behind.  No other call fails with the
\* no-subscriber error.
C27_EmitOnSingle ==
    [][/\ EmitsOnSingle =>
              IF slots[TheSingle] = <<>>
              THEN /\ err' = NoSubscriber
                   /\ applied' = applied
                   /\ returned' = returned
                   /\ borrowedSlots' = borrowedSlots \cup {TheSingle}
              ELSE /\ err' = "none"
                   /\ borrowedSlots' = borrowedSlots
                   /\ Len(applied') = 1
                   /\ applied'[1].item = slots[TheSingle][1]
                   /\ returned' = [call |-> "Single::emit",
                                   of |-> slots[TheSingle][1],
                                   value |-> <<applied'[1].result>>]
       /\ (err = "none" /\ err' = NoSubscriber) =>
              /\ EmitsOnSingle
              /\ slots[TheSingle] = <<>>]_vars

\* an emit has called the closure on node 1, the subscriber, and returned
\* its result; node 1 was unsubscribed and the next emit, on the empty
\* Single, has failed (tests::emit_on_empty_single)
C27_Witness ==
    /\ err = NoSubscriber
    /\ Len(nodes) = 1
    /\ slots[TheSingle] = <<>>
    /\ lastCall.name = "Single::emit"
    /\ TheSingle \in borrowedSlots
    /\ applied = <<[item |-> 1, result |-> 1]>>
    /\ returned = [call |-> "Single::emit", of |-> 1, value |-> <<1>>]

----------------------------------------------------------------------------
(* C28 *)

MultipleItems == "unable to register multiple items simultaneously"

\* C28: a Single never holds more than one subscriber.  A register
\* statement of a subscribe on a Single that holds a subscriber fails with
\* the multiple-items error, and no other call fails with it; on a Single
\* that holds none, which is also the case after the subscriber it held
\* was unsubscribed, it succeeds and the Single holds the node of the call.
C28_AtMostOne ==
    /\ [](Len(slots[TheSingle]) <= 1)
    /\ [][/\ (Running /\ Adding(STACK) /\ Statement = Register(TheSingle)
              /\ slots[TheSingle] # <<>>) => err' = MultipleItems
          /\ (Running /\ Adding(STACK) /\ Statement = Register(TheSingle)
              /\ slots[TheSingle] = <<>>) =>
                 /\ err' = "none"
                 /\ slots'[TheSingle] = <<Top.item>>
          /\ (err = "none" /\ err' = MultipleItems) =>
                 /\ Adding(STACK)
                 /\ Statement = Register(TheSingle)
                 /\ slots[TheSingle] # <<>>]_vars

\* node 1 was subscribed and unsubscribed, node 2 was subscribed after it
\* and the subscribe of node 3 has failed on the Single that holds node 2
\* (tests::double_single_registered)
C28_Witness ==
    /\ err = MultipleItems
    /\ Len(nodes) = 3
    /\ Len(STACK) = 1
    /\ Top.item = 3
    /\ nodes[1].name = "L" /\ nodes[2].name = "L" /\ nodes[3].name = "L"

----------------------------------------------------------------------------
(* C29 *)

\* C29: a register statement of an unsubscribe on a Single fails with the
\* nonexistent-item error and leaves the Single as it is when the node of
\* the call is not the subscriber of the Single, whether the Single is
\* empty or holds another node; it succeeds and empties the Single when the
\* node of the call is the subscriber.  Single::register does not compare
\* the subscriber with the item it is given, so the unsubscribe of a node
\* that is not registered takes out the node that is: the statement does
\* not hold.
C29_OnlyOwnUnsubscribe ==
    [][(Running /\ Removing(STACK) /\ Statement = Register(TheSingle)) =>
           IF slots[TheSingle] = <<Top.item>>
           THEN /\ err' = "none"
                /\ slots'[TheSingle] = <<>>
           ELSE /\ err' = Nonexistent
                /\ slots'[TheSingle] = slots[TheSingle]]_vars

----------------------------------------------------------------------------
(* C30 *)

\* the Feedee is enabled: its queue is in the Vec of its Feed
Enabled(id) ==
    \E i \in 1..Len(queues[feedees[id].feed]) :
        queues[feedees[id].feed][i].items = id

Grows(id) == Len(feedees'[id].items) > Len(feedees[id].items)
Shrinks(id) == Len(feedees'[id].items) < Len(feedees[id].items)

\* C30: a step that lengthens a queue and fails with nothing is a feed of
\* one item, which is put at the back of the queue of every enabled
\* Feedee of the feed and of no other; a feed, made by the holder of a
\* Feeder or inside a subscribe, fails only with the queue-full error, on a
\* queue that is full, and nothing else fails.  A step that shortens a
\* queue is the pop of one Feedee: it returns the item at the front of
\* that queue, takes it off and leaves every other queue as it is; a pop
\* that returns None finds its queue empty and changes no queue.
C30_FeedAndPop ==
    [][/\ Len(feedees') = Len(feedees) =>
          /\ ((\E id \in 1..Len(feedees) : Grows(id)) /\ err' = "none") =>
                 \E item \in FeedItems :
                     \A id \in 1..Len(feedees) :
                         feedees'[id].items =
                             IF Enabled(id)
                             THEN Append(feedees[id].items, item)
                             ELSE feedees[id].items
          /\ (err = "none" /\ err' # "none") =>
                 /\ err' = QueueFull
                 /\ \E id \in 1..Len(feedees) :
                        /\ Enabled(id)
                        /\ Len(feedees[id].items) = max_size
          /\ \A id \in 1..Len(feedees) :
                 Shrinks(id) =>
                     /\ returned' = [call |-> "Feedee::pop", of |-> id,
                                     value |-> <<Head(feedees[id].items)>>]
                     /\ feedees'[id].items = Tail(feedees[id].items)
                     /\ \A o \in 1..Len(feedees) :
                            o # id =>
                                feedees'[o].items = feedees[o].items
          /\ (returned' # returned /\ returned'.value = <<>>) =>
                 /\ returned'.call = "Feedee::pop"
                 /\ feedees[returned'.of].items = <<>>
                 /\ feedees' = feedees
       /\ Len(feedees') # Len(feedees) =>
              /\ Len(feedees') = Len(feedees) + 1
              /\ Last(feedees').items = <<>>
              /\ SubSeq(feedees', 1, Len(feedees)) = feedees]_vars

\* 0 and then 1 were fed to two enabled Feedees; the first has popped the
\* 0 and holds the 1, the second still holds both
\* (tests::one_feeder_to_many_feedees)
C30_Witness ==
    /\ Running
    /\ Len(feedees) = 2
    /\ Enabled(1) /\ Enabled(2)
    /\ feedees[1].items = <<1>>
    /\ feedees[2].items = <<0, 1>>
    /\ returned = [call |-> "Feedee::pop", of |-> 1, value |-> <<0>>]

----------------------------------------------------------------------------
(* C31 *)

\* some enabled Feedee of the feed has a full queue
SomeFull ==
    \E id \in 1..Len(feedees) :
        Enabled(id) /\ Len(feedees[id].items) = max_size

\* the step is a call of Feeder::feed: the feed statement of a
\* register_emits, or a call made outside subscribe, by the owner or by a
\* handler, that is neither a pop nor an enable or disable nor the drop of a
\* Feedee nor a step of an emit
Feeds ==
    \/ /\ Running
       /\ InOps
       /\ Kinds[Top.name].ops[Top.pc][1] = "feed"
    \/ /\ STACK = <<>>
       /\ STACK' = <<>>
       /\ emitStack' = emitStack
       /\ borrowedSlots' = borrowedSlots
       /\ borrowedNodes' = borrowedNodes
       /\ queues' = queues
       /\ returned' = returned
       /\ \A id \in 1..Len(feedees) :
              ~Shrinks(id) /\ feedees'[id].dropped = feedees[id].dropped

\* C31: no queue of a Feedee holds more than max_size items.  A feed fails
\* with the queue-full error when the queue of some enabled Feedee holds
\* max_size items, and otherwise succeeds and lengthens the queue of every
\* enabled Feedee by one, so max_size feeds into empty queues succeed
\* without a pop; a feed made by a register_emits is no different.
C31_QueueBound ==
    /\ [](\A id \in 1..Len(feedees) : Len(feedees[id].items) <= max_size)
    /\ [][Feeds =>
              IF SomeFull
              THEN err' = QueueFull
              ELSE /\ err' = "none"
                   /\ \A id \in 1..Len(feedees) :
                          Len(feedees'[id].items) =
                              Len(feedees[id].items)
                                  + (IF Enabled(id) THEN 1 ELSE 0)]_vars

\* max_size feeds have filled the queue of the only Feedee, which never
\* popped, and the next feed has failed (tests::feeder_channel_limit_single)
C31_Witness ==
    /\ err = QueueFull
    /\ Len(feedees) = 1
    /\ Enabled(1)
    /\ Len(feedees[1].items) = max_size
    /\ returned = NoReturn

----------------------------------------------------------------------------
(* C32 *)

\* the places of the queue of a Feedee in the Vec of a Feed
PlacesIn(qs, id) == {i \in 1..Len(qs) : qs[i].items = id}

\* the step is a call of enable or disable on the Feedee: it creates and
\* drops no Feedee and feeds nothing
Switches(call, id) ==
    /\ feedees' = feedees
    /\ returned' # returned \/ queues' # queues
    /\ returned'.call = call
    /\ returned'.of = id

\* C32: enable leaves the Feedee enabled and disable leaves it disabled,
\* whatever it was, and each returns true exactly when the Feedee was in
\* the other state; neither changes a queue or the state of another
\* Feedee, and the queue of a Feedee is never in the Vec twice.  A Feedee
\* is enabled when it is created, also when the create closure of its
\* subscribe disables it next, and a step that lengthens the queue of a
\* Feedee finds it enabled.  The one other step that takes a queue out of
\* the Vec is the drop of its Feedee.
C32_EnableDisable ==
    [][\A id \in 1..Len(feedees) :
           LET f == feedees[id].feed
           IN /\ Switches("Feedee::enable", id) =>
                     /\ PlacesIn(queues'[f], id) # {}
                     /\ returned'.value = <<~Enabled(id)>>
              /\ Switches("Feedee::disable", id) =>
                     /\ PlacesIn(queues'[f], id) = {}
                     /\ returned'.value = <<Enabled(id)>>
              /\ (queues' # queues /\ feedees' = feedees) =>
                     /\ returned'.call \in {"Feedee::enable",
                                            "Feedee::disable"}
                     /\ returned'.of # id =>
                            (PlacesIn(queues'[f], id) = {}
                                 <=> PlacesIn(queues[f], id) = {})
              /\ (queues' # queues /\ feedees' # feedees
                  /\ Len(feedees') = Len(feedees)) =>
                     /\ \E d \in 1..Len(feedees) :
                            /\ ~feedees[d].dropped
                            /\ feedees' = [feedees EXCEPT ![d].dropped = TRUE]
                            /\ queues' = [queues EXCEPT ![feedees[d].feed]
                                                           = Disabled(@, d)]
                     /\ returned' = returned
              /\ Cardinality(PlacesIn(queues'[f], id)) <= 1
              /\ Grows(id) => Enabled(id)]_vars
    /\ [][Len(feedees') = Len(feedees) + 1 =>
              PlacesIn(queues'[Last(feedees').feed], Len(feedees')) # {}]_vars

\* the second Feedee was disabled, a second disable returned false, and
\* the 0 fed after it went to the first Feedee only
\* (tests::one_feeder_to_many_feedees_disable_enable)
C32_Witness ==
    /\ Running
    /\ Len(feedees) = 2
    /\ Enabled(1) /\ ~Enabled(2)
    /\ feedees[1].items = <<0>>
    /\ feedees[2].items = <<>>
    /\ returned = [call |-> "Feedee::disable", of |-> 2, value |-> <<FALSE>>]

----------------------------------------------------------------------------
(* Mailer and Mailbox (src/src/asynchronous.rs), an unbounded Mailer used  *)
(* by several threads.  Mailer::send and Mailer::receiver run under the    *)
(* Mutex of Senders; Mailbox::try_recv reads its channel without the Mutex *)
(* and locks it only when the channel was empty.                           *)

MailItems == {0, 1}

Boxes == 1..Len(channels)
LiveBoxes == Boxes \ dropped
Locked == sending # NoSend

\* no call of the Mailbox is in progress
Idle(b) == b \notin waiting /\ \A at \in {"lock", "recv"} : <<b, at>> \notin receiving

\* Mailer::mailbox: Mailer::receiver pushes the Sender of a new channel
\* under the Mutex, the Mailbox keeps the Receiver
MailerMailbox ==
    /\ ~Locked
    /\ Len(channels) < MaxBoxes
    /\ senders' = Append(senders, Len(channels) + 1)
    /\ channels' = Append(channels, <<>>)
    /\ taken' = Append(taken, <<>>)
    /\ since' = Append(since, Len(sent))
    /\ received' = Append(received, <<>>)
    /\ UNCHANGED <<lastSent, dropped, sending, waiting, sent>>
    /\ UNCHANGED <<mngVars, subVars, emitVars, recChain, nodeVars, recVars,
                   contVars, err>>
    /\ UNCHANGED receiving

\* Mailer::send, line 45: the Mutex is taken
SendBegin(item) ==
    /\ ~Locked
    /\ Len(sent) < MaxMail
    /\ sending' = [item |-> item, idx |-> 1]
    /\ sent' = Append(sent, item)
    /\ UNCHANGED <<senders, lastSent, channels, dropped, waiting, taken,
                   since, received>>
    /\ UNCHANGED <<mngVars, subVars, emitVars, recChain, nodeVars, recVars,
                   contVars, err>>
    /\ UNCHANGED receiving

\* a faulty variant of SendStep: the Sender is skipped
SendStep_skipping ==
    /\ Locked
    /\ sending.idx <= Len(senders)
    /\ sending' = [sending EXCEPT !.idx = @ + 1]
    /\ UNCHANGED <<senders, channels>>
    /\ UNCHANGED <<lastSent, dropped, waiting, sent, taken, since, received>>
    /\ UNCHANGED <<mngVars, subVars, emitVars, recChain, nodeVars, recVars,
                   contVars, err>>
    /\ UNCHANGED receiving

\* Mailer::send, line 46: one call of the drain_filter closure.  Sender::send
\* fails when the Receiver was dropped, and the Sender is then removed
SendStep ==
    /\ Locked
    /\ sending.idx <= Len(senders)
    /\ LET x == senders[sending.idx]
       IN IF x \in dropped
          THEN /\ senders' = [i \in 1..(Len(senders) - 1) |->
                                 IF i < sending.idx THEN senders[i]
                                                    ELSE senders[i + 1]]
               /\ UNCHANGED <<channels, sending>>
          ELSE /\ channels' = [channels EXCEPT
                                  ![x] = Append(@, sending.item)]
               /\ sending' = [sending EXCEPT !.idx = @ + 1]
               /\ UNCHANGED senders
    /\ UNCHANGED <<lastSent, dropped, waiting, sent, taken, since, received>>
    /\ UNCHANGED <<mngVars, subVars, emitVars, recChain, nodeVars, recVars,
                   contVars, err>>
    /\ UNCHANGED receiving

\* Mailer::send, lines 47-48: the item is kept and the Mutex released
SendEnd ==
    /\ Locked
    /\ sending.idx > Len(senders)
    /\ lastSent' = <<sending.item>>
    /\ sending' = NoSend
    /\ UNCHANGED <<senders, channels, dropped, waiting, sent, taken, since,
                   received>>
    /\ UNCHANGED <<mngVars, subVars, emitVars, recChain, nodeVars, recVars,
                   contVars, err>>
    /\ UNCHANGED receiving

\* Mailbox::try_recv, lines 119-121: Receiver::try_recv.  The Sender of the
\* Mailbox lives in Senders, which the Mailbox keeps alive, so Disconnected
\* does not occur
TryRecvBegin(b) ==
    /\ b \in LiveBoxes
    /\ Idle(b)
    /\ Len(received[b]) < MaxRecv
    /\ IF channels[b] # <<>>
       THEN /\ returned' = [call |-> "Mailbox::try_recv", of |-> b,
                            value |-> <<Head(channels[b])>>]
            /\ channels' = [channels EXCEPT ![b] = Tail(@)]
            /\ taken' = [taken EXCEPT ![b] = Append(@, Head(channels[b]))]
            /\ received' = [received EXCEPT
                                ![b] = Append(@, Head(channels[b]))]
            /\ UNCHANGED waiting
       ELSE /\ waiting' = waiting \cup {b}
            /\ UNCHANGED <<returned, channels, taken, received>>
    /\ UNCHANGED <<senders, lastSent, dropped, sending, sent, since>>
    /\ UNCHANGED <<mngVars, subVars, emitVars, recChain, nodeVars, recVars,
                   feedees, applied, err>>
    /\ UNCHANGED receiving

\* a faulty variant of TryRecvEnd: None whenever the channel was empty
TryRecvEnd_none(b) ==
    /\ b \in waiting
    /\ ~Locked
    /\ returned' = [call |-> "Mailbox::try_recv", of |-> b, value |-> <<>>]
    /\ waiting' = waiting \ {b}
    /\ UNCHANGED <<senders, lastSent, channels, dropped, sending, sent,
                   taken, since, received>>
    /\ UNCHANGED <<mngVars, subVars, emitVars, recChain, nodeVars, recVars,
                   feedees, applied, err>>
    /\ UNCHANGED receiving

\* Mailbox::try_recv, lines 121-124: the channel was empty, the Mutex is
\* taken and the item kept by the last Mailer::send is cloned, whether or
\* not the Mailbox has received that item from its channel
TryRecvEnd(b) ==
    /\ b \in waiting
    /\ ~Locked
    /\ returned' = [call |-> "Mailbox::try_recv", of |-> b,
                    value |-> lastSent]
    /\ received' = [received EXCEPT ![b] = @ \o lastSent]
    /\ waiting' = waiting \ {b}
    /\ UNCHANGED <<senders, lastSent, channels, dropped, sending, sent,
                   taken, since>>
    /\ UNCHANGED <<mngVars, subVars, emitVars, recChain, nodeVars, recVars,
                   feedees, applied, err>>
    /\ UNCHANGED receiving

\* a Mailbox is dropped, and its Receiver with it
MailboxDrop(b) ==
    /\ b \in LiveBoxes
    /\ Idle(b)
    /\ dropped' = dropped \cup {b}
    /\ UNCHANGED <<senders, lastSent, channels, sending, waiting, sent,
                   taken, since, received>>
    /\ UNCHANGED <<mngVars, subVars, emitVars, recChain, nodeVars, recVars,
                   contVars, err>>
    /\ UNCHANGED receiving

\* Mailbox::recv, line 93: Receiver::try_recv
RecvBegin(b) ==
    /\ b \in LiveBoxes
    /\ Idle(b)
    /\ Len(received[b]) < MaxRecv
    /\ IF channels[b] # <<>>
       THEN /\ returned' = [call |-> "Mailbox::recv", of |-> b,
                            value |-> <<Head(channels[b])>>]
            /\ channels' = [channels EXCEPT ![b] = Tail(@)]
            /\ taken' = [taken EXCEPT ![b] = Append(@, Head(channels[b]))]
            /\ received' = [received EXCEPT
                                ![b] = Append(@, Head(channels[b]))]
            /\ UNCHANGED receiving
       ELSE /\ receiving' = receiving \cup {<<b, "lock">>}
            /\ UNCHANGED <<returned, channels, taken, received>>
    /\ UNCHANGED <<senders, lastSent, dropped, sending, waiting, sent, since>>
    /\ UNCHANGED <<mngVars, subVars, emitVars, recChain, nodeVars, recVars,
                   feedees, applied, err>>

\* Mailbox::recv, lines 96-100: the channel was empty and the Mutex is
\* taken; the item kept by the last Mailer::send is cloned, and when none
\* was kept the Mutex is released for Receiver::recv
RecvLock(b) ==
    /\ <<b, "lock">> \in receiving
    /\ ~Locked
    /\ IF lastSent # <<>>
       THEN /\ returned' = [call |-> "Mailbox::recv", of |-> b,
                            value |-> lastSent]
            /\ received' = [received EXCEPT ![b] = @ \o lastSent]
            /\ receiving' = receiving \ {<<b, "lock">>}
       ELSE /\ receiving' = (receiving \ {<<b, "lock">>}) \cup {<<b, "recv">>}
            /\ UNCHANGED <<returned, received>>
    /\ UNCHANGED <<senders, lastSent, channels, dropped, sending, waiting,
                   sent, taken, since>>
    /\ UNCHANGED <<mngVars, subVars, emitVars, recChain, nodeVars, recVars,
                   feedees, applied, err>>

\* Mailbox::recv, lines 101-102: Receiver::recv blocks until the channel
\* holds an item
RecvEnd(b) ==
    /\ <<b, "recv">> \in receiving
    /\ channels[b] # <<>>
    /\ returned' = [call |-> "Mailbox::recv", of |-> b,
                    value |-> <<Head(channels[b])>>]
    /\ channels' = [channels EXCEPT ![b] = Tail(@)]
    /\ taken' = [taken EXCEPT ![b] = Append(@, Head(channels[b]))]
    /\ received' = [received EXCEPT ![b] = Append(@, Head(channels[b]))]
    /\ receiving' = receiving \ {<<b, "recv">>}
    /\ UNCHANGED <<senders, lastSent, dropped, sending, waiting, sent, since>>
    /\ UNCHANGED <<mngVars, subVars, emitVars, recChain, nodeVars, recVars,
                   feedees, applied, err>>

NextMail ==
    \/ MailerMailbox
    \/ \E item \in MailItems : SendBegin(item)
    \/ SendStep
    \/ SendEnd
    \/ \E b \in 1..MaxBoxes : TryRecvBegin(b)
    \/ \E b \in 1..MaxBoxes : TryRecvEnd(b)
    \/ \E b \in 1..MaxBoxes : MailboxDrop(b)
    \/ \E b \in 1..MaxBoxes : RecvBegin(b)
    \/ \E b \in 1..MaxBoxes : RecvLock(b)
    \/ \E b \in 1..MaxBoxes : RecvEnd(b)

SpecMail == Init /\ [][NextMail]_vars

\* the running Mailer::send has called Sender::send for Mailbox b
Reached(b) ==
    \E i \in 1..Len(senders) : senders[i] = b /\ i < sending.idx

\* the items sent since Mailbox b was created that its channel was given
Delivered(b) ==
    LET all == SubSeq(sent, since[b] + 1, Len(sent))
    IN IF Locked /\ ~Reached(b) THEN SubSeq(all, 1, Len(all) - 1) ELSE all

\* Mailbox::try_recv of b returns in this step
Receives(b) ==
    /\ b \in Boxes
    /\ \/ taken'[b] # taken[b] /\ returned'.call # "Mailbox::recv"
       \/ b \in waiting /\ b \notin waiting'

\* s is an initial part of t
IsPrefix(s, t) == Len(s) <= Len(t) /\ s = SubSeq(t, 1, Len(s))

\* C33 as stated: a Mailbox created before the sends receives one copy of
\* every item sent, in the order of the sends: what its recv and try_recv
\* returned so far is an initial part of the items sent.
C33_OneCopyInOrder ==
    \A b \in LiveBoxes : since[b] = 0 => IsPrefix(received[b], sent)

\* C33 amended: Mailbox::try_recv returns None only if no Mailer::send was
\* ever called; when it found its channel empty it returns a clone of the
\* item sent last, so a Mailbox created after a send returns that item, and
\* so does a Mailbox that drew that item from its channel before or will
\* draw it later; the channel of every live Mailbox was given one copy of
\* every item sent since the Mailbox was created: what its Receiver gave out
\* followed by what is queued is these items in the order of the sends, and
\* what the Mailbox received is what its Receiver gave out and the clones.
C33_MailboxReceives ==
    /\ [](\A b \in LiveBoxes : taken[b] \o channels[b] = Delivered(b))
    /\ [][\A b \in 1..MaxBoxes : Receives(b) =>
              /\ returned'.call = "Mailbox::try_recv"
              /\ returned'.of = b
              /\ returned'.value = <<>> => sent = <<>>
              /\ received'[b] = received[b] \o returned'.value
              /\ b \in waiting =>
                     /\ returned'.value =
                            IF sent = <<>> THEN <<>> ELSE <<sent[Len(sent)]>>
                     /\ taken'[b] = taken[b]
              /\ b \notin waiting =>
                     /\ returned'.value = <<Head(channels[b])>>
                     /\ taken'[b] = Append(taken[b], Head(channels[b]))]_vars

\* Mailbox 1 was created before the sends of 0 and 1, received both from
\* its channel and then the 1 again, a clone of the item sent last; Mailbox
\* 2 was created after the sends and its try_recv returned the 1 sent last
\* (tests::send_to_one, Mailbox::try_recv documentation)
C33_Witness ==
    /\ sent = <<0, 1>>
    /\ Len(channels) = 2
    /\ since = <<0, 2>>
    /\ taken = <<<<0, 1>>, <<>>>>
    /\ received = <<<<0, 1, 1>>, <<1>>>>
    /\ returned = [call |-> "Mailbox::try_recv", of |-> 2, value |-> <<1>>]

----------------------------------------------------------------------------
(* C34 *)

\* C34: closing a frame succeeds when the graph with the edges of the frame
\* has no cycle through Direct channels, and is rejected only when it has
\* one: a channel reached along two paths (a->b, a->c, b->c) is accepted,
\* and of handlers wired in a ring only the one closing the ring is rejected.
C34_AcyclicAccepted ==
    [][IsSubscribeEnd =>
           (err' = "none" <=>
                Acyclic(DirectEdges(amalgam', channel_types)))]_vars

\* the triangle of src/tests/triangle.rs was accepted: a handler listening on
\* a and emitting on b and c, and one listening on b and emitting on c
C34_Witness ==
    /\ Running
    /\ STACK = <<>>
    /\ Len(nodes) = 2
    /\ DirectEdges(amalgam, channel_types)
           = {<<"a", "b">>, <<"a", "c">>, <<"b", "c">>}

----------------------------------------------------------------------------
(* C35 *)

\* C35: closing a frame adds to the graph the edge listen -> emit for every
\* pair of a channel the frame listens on and a channel it emits on, and no
\* other edge, so none when the frame listens on nothing and none when it
\* emits on nothing; the frame closed is the innermost one, the others stay
\* open.
C35_CrossProduct ==
    [][IsSubscribeEnd =>
           LET last == Last(active)
           IN /\ Edges(amalgam') = Edges(amalgam) \cup
                      (Range(last.listens) \X Range(last.emits))
              /\ (last.listens = <<>> \/ last.emits = <<>>) =>
                     Edges(amalgam') = Edges(amalgam)
              /\ active' = SubSeq(active, 1, Len(active) - 1)]_vars

\* the frame of a handler that listens on a and emits on b and c was closed
\* and gave a->b and a->c; then the frame of a handler that emits on b and
\* listens on nothing (node A of tests::simple_case) and the frame of a
\* handler that listens on a and emits on nothing were closed, and the
\* graph has the same two edges
C35_Witness ==
    /\ Running
    /\ active = <<>>
    /\ Len(nodes) = 3
    /\ "a" \in DOMAIN listens
    /\ {"T", "L"} \subseteq listens["a"]
    /\ "b" \in DOMAIN emits
    /\ {"T", "A"} \subseteq emits["b"]
    /\ \A ch \in DOMAIN listens : "A" \notin listens[ch]
    /\ \A ch \in DOMAIN emits : "L" \notin emits[ch]
    /\ Edges(amalgam) = {<<"a", "b">>, <<"a", "c">>}

----------------------------------------------------------------------------
(* C36 *)

\* the entries of the context stack are the nodes of the dispatches in
\* progress, the outermost first
StackOfFrames ==
    LET disp == SelectSeq(frames, IsDispatch)
    IN [i \in 1..Len(disp) |-> disp[i].id]

\* C36: Node::emit pushes one entry on the context stack before the handler
\* runs and pops it after, and suspend pushes and pops none: the stack holds
\* one entry per dispatch in progress, suspended ones included, so k-1
\* entries when the k-th of a chain of emits nested through suspend starts;
\* and when no dispatch is in progress any more the stack is empty and every
\* cell is unborrowed, as before the outermost emit.
C36_StackDepth ==
    /\ [](/\ NODE_STACK = StackOfFrames
          /\ DispatchFrames = {} => \A c \in Cells : flag[c] = 0)
    /\ [][/\ \A n \in Cells : (frames' # <<>> /\ Entered(n)) =>
                 /\ Len(NODE_STACK) = Cardinality(DispatchFrames)
                 /\ NODE_STACK' = Append(NODE_STACK, n)
          /\ (InHandler /\ Len(frames') < Len(frames)) =>
                 /\ NODE_STACK' = SubSeq(NODE_STACK, 1, Len(NODE_STACK) - 1)
                 /\ Len(frames') = Len(frames) - 1
          /\ (lastCall'.name \in {"suspend", "suspend_return"}) =>
                 NODE_STACK' = NODE_STACK]_vars

\* the third emit of a chain nested through suspend has started with two
\* entries on the stack (trace_tests::tracing_nested with nestings = 3)
C36_Witness ==
    /\ err = "none"
    /\ Len(frames) = 5
    /\ \A i \in {1, 3, 5} : frames[i].kind = "emit"
    /\ \A i \in {2, 4} : frames[i].kind = "suspend"
    /\ Len(NODE_STACK) = 3
    /\ lastCall.name = "emit"

----------------------------------------------------------------------------
(* C37 *)

\* C37: a Node::emit that panics because the item is already borrowed
\* leaves every flag and the context stack as they were and enters no
\* handler: the dispatches in progress are those of before the call.
C37_RejectedEmitInert ==
    [][(err' = AlreadyBorrowed /\ lastCall'.name \in {"emit", "channel_emit"})
       => /\ is_borrowed(flag[lastCall'.target])
          /\ flag' = flag
          /\ NODE_STACK' = NODE_STACK
          /\ SelectSeq(frames', IsDispatch) = SelectSeq(frames, IsDispatch)
          /\ Len(frames') = Len(frames)]_vars

\* the handler of a node called emit on its own node and the call panicked:
\* the node is still borrowed once and has one entry on the stack
C37_Witness ==
    /\ err = AlreadyBorrowed
    /\ lastCall.name = "emit"
    /\ lastCall.prev = "emit"
    /\ frames = <<Frame("emit", lastCall.target)>>
    /\ NODE_STACK = <<lastCall.target>>
    /\ flag[lastCall.target] = -1

----------------------------------------------------------------------------
(* C38 *)

\* the running subscribe call is for a kind of which an instance has been
\* subscribed before
FurtherInstance ==
    /\ STACK # <<>>
    /\ Last(STACK).mode = "Adding"
    /\ \E n \in Finished : nodes[n].name = Top.name

\* C38: the subscription of a further instance of a kind already subscribed
\* panics in none of its steps, and closing its frame leaves amalgam,
\* listens and emits as they are, whatever the number of instances.
C38_FurtherInstance ==
    [][FurtherInstance =>
           /\ err' = "none"
           /\ IsSubscribeEnd =>
                  /\ amalgam' = amalgam
                  /\ listens' = listens
                  /\ emits' = emits]_vars

\* three instances of the kind that listens on a and emits on b and c are
\* subscribed (tests::basic with value = 3)
C38_Witness ==
    /\ Running
    /\ STACK = <<>>
    /\ Len(nodes) = 3
    /\ \A n \in 1..3 : nodes[n].name = "T"
    /\ \A n \in 1..3 : Contains(slots["a"], n)

----------------------------------------------------------------------------
(* C39 *)

\* C39: no slot holds a node twice in any state reached with subscribe and
\* unsubscribe, so the Slot::register of an unsubscribe, which removes the
\* first entry that is the node, leaves the slot without the node.
C39_NodeOncePerSlot ==
    /\ [](\A s \in DOMAIN slots : NoDuplicates(slots[s]))
    /\ [][\A s \in DOMAIN slots :
              (/\ STACK # <<>>
               /\ Last(STACK).mode = "Removing"
               /\ slots'[s] # slots[s])
              => /\ Contains(slots[s], Top.item)
                 /\ ~Contains(slots'[s], Top.item)
                 /\ Len(slots'[s]) = Len(slots[s]) - 1]_vars

\* of two subscribers of one kind on slot a the first has been unsubscribed
C39_Witness ==
    /\ Running
    /\ STACK = <<>>
    /\ Len(nodes) = 2
    /\ nodes[1].name = "X"
    /\ nodes[2].name = "X"
    /\ slots["a"] = <<2>>

----------------------------------------------------------------------------
(* C40 *)

RECURSIVE ReachFrom(_, _)
\* the signals of S and those that can be reached from them in the mapping
ReachFrom(map, S) ==
    LET S2 == S \cup {c \in ChainNames :
                         \E p \in S \cap DOMAIN map : Contains(map[p], c)}
    IN IF S2 = S THEN S ELSE ReachFrom(map, S2)

\* the signals reached from x in one step or more
ProperDescendants(map, x) ==
    ReachFrom(map, {c \in ChainNames : x \in DOMAIN map /\ Contains(map[x], c)})

\* the pairs of places of the list whose second signal is a proper
\* descendant of the first
ChainedPairs(map, signals) ==
    {p \in (1..Len(signals)) \X (1..Len(signals)) :
        /\ p[1] # p[2]
        /\ signals[p[2]] \in ProperDescendants(map, signals[p[1]])}

\* the first pair: the least first place, and the least second place with it
FirstPair(pairs) ==
    CHOOSE p \in pairs :
        \A q \in pairs : p[1] < q[1] \/ (p[1] = q[1] /\ p[2] <= q[2])

\* the last call was is_chained on signals, the last Recursion::check since
\* the last add returned Ok, and the signals and all that can be reached
\* from them have been added
ChainedOnAccepted(signals) ==
    /\ returned.call = "Recursion::is_chained"
    /\ returned.value[1].signals = signals
    /\ checked.state = "Ok"
    /\ ReachFrom(mapping, Range(signals)) \subseteq DOMAIN mapping

\* C40: on a mapping accepted by Recursion::check in which the listed signals
\* and all that can be reached from them have been added, is_chained returns
\* (it neither panics nor recurses without end), with ChainedError{from, to}
\* for the first pair of listed signals of which `to` is a proper descendant
\* of `from`, and with Ok when there is no such pair, as for every list of
\* one signal.
C40_IsChained ==
    \A signals \in SignalLists :
        ChainedOnAccepted(signals) =>
            LET result == returned.value[1].result
                pairs == ChainedPairs(mapping, signals)
            IN /\ result.state \in {"Ok", "Err"}
               /\ result.state = "Err" <=> pairs # {}
               /\ pairs # {} =>
                      /\ result.from = signals[FirstPair(pairs)[1]]
                      /\ result.to = signals[FirstPair(pairs)[2]]
               /\ Len(signals) = 1 => result.state = "Ok"

\* tests::chained_subscriber: A calls B, B calls C, C calls nothing, the
\* check passed and is_chained(["A", "C"]) returned ChainedError{A, C}
C40_Witness ==
    /\ DOMAIN mapping = {"a", "b", "c"}
    /\ mapping["a"] = <<"b">>
    /\ mapping["b"] = <<"c">>
    /\ mapping["c"] = <<>>
    /\ ChainedOnAccepted(<<"a", "c">>)
    /\ returned.value[1].result =
           [state |-> "Err", from |-> "a", to |-> "c"]

====
